---- MODULE Spec2Model ----
(***************************************************************************)
(* Verification model of windrun, the Ability Draft statistics dashboard.  *)
(*                                                                         *)
(* The derived-metrics layer of the page components is modelled here:      *)
(*   - the ability / hero resolver (src/src/utils/abilityHelpers.ts and    *)
(*     the page-local resolveAbilityInfo helpers),                         *)
(*   - the synergy score of the ability-pairs and ability-detail pages,    *)
(*   - the hidden-triple detection and the hero-exclusion filter of the    *)
(*     ability-pairs page,                                                 *)
(*   - the rating distribution estimator of the distribution page,        *)
(*   - the pick / win-rate curve builder of the ability-detail page,       *)
(*   - the API client and the retry policy of the queries,                 *)
(*   - the patch selection of the PatchSelector component,                 *)
(*   - the filtered and sorted tables of the hero-attributes page,         *)
(*   - the sections of the hero-detail and ability-pairs pages under       *)
(*     query failure,                                                      *)
(*   - the debounced player search of the leaderboard page.                *)
(*                                                                         *)
(* JavaScript values that may be undefined or null are boxed as records    *)
(* [t |-> <type>, v |-> <value>], so that `x ?? d`, `x?.f`, `x != null`    *)
(* and `x === y` are computed as the language computes them.  A field of   *)
(* an object literal whose value is undefined counts as absent.            *)
(*                                                                         *)
(* Real numbers are fixed-point integers in units of 1/100 on the          *)
(* ability-pairs page: the API win rate 0.55 is 55, the percentage 55%     *)
(* (0.55 * 100) is 5500.  The distribution and the curve divide by         *)
(* arbitrary counts and hold exact rationals instead.                      *)
(***************************************************************************)
EXTENDS Integers, Sequences, FiniteSets, TLC

VARIABLES
    heroes,             \* reference table: hero id -> Hero
    abilities,          \* reference table: ability id -> Ability
    call,               \* the last resolver call and what it returned
    synergyCall,        \* the last synergy computation, on both pages
    pairsResponse,      \* AbilityPairsPage: /ability-pairs query data
    abilitiesResponse,  \* AbilityPairsPage: /abilities query data
    tripletsResponse,   \* AbilityPairsPage: /ability-triplets query data
    excludeSameHero,    \* AbilityPairsPage: the excludeSameHero URL flag
    abilityWinRateMap,  \* AbilityPairsPage: memo
    pairPicksMap,       \* AbilityPairsPage: memo
    hiddenTriplesMap,   \* AbilityPairsPage: memo
    statsData,          \* AbilityPairsPage: memo, the rows of the table
    playersResponse,    \* DistributionPage: /players query data
    distributionData,   \* DistributionPage: memo, the buckets by ascending rating
    totalPlayers,       \* DistributionPage: memo
    cumulativeData,     \* DistributionPage: memo
    meanRating,         \* DistributionPage: memo, the mean of the statistics card
    chartLines,         \* DistributionPage: the Q1 / mean / Q3 lines the chart effect drew
    quartileCall,       \* DistributionPage: the last computeQuartile call
    apiResponse,        \* AbilityDetailPage: /abilities/:id query data
    winrateType,        \* AbilityDetailPage: display mode of the curve
    chartData,          \* AbilityDetailPage: memo, the 40-point series
    drawnSeries,        \* AbilityDetailPage: what the chart effect drew
    query,              \* one query of the query client: status, failures, delay
    historicData,       \* usePatchSelection: /heroes/historic query data
    urlPatch,           \* usePatchSelection: the patch parameter of the URL
    patches,            \* usePatchSelection: the de-duplicated patch list
    currentPatch,       \* usePatchSelection: the selected patch
    prevPatch,          \* usePatchSelection: the patch before the selected one
    issued,             \* the requests the patch-dependent queries have issued
    attributesResponse, \* AbilityHeroAttributesPage: /ability-hero-attributes query data
    viewMode,           \* AbilityHeroAttributesPage: the view parameter of the URL
    sortField,          \* AbilityHeroAttributesPage: state
    sortDir,            \* AbilityHeroAttributesPage: state
    searchQuery,        \* AbilityHeroAttributesPage: state, the text of the search box
    attributeData,      \* AbilityHeroAttributesPage: memo
    attackTypeData,     \* AbilityHeroAttributesPage: memo
    filteredAttributeData,   \* AbilityHeroAttributesPage: memo
    filteredAttackTypeData,  \* AbilityHeroAttributesPage: memo
    sortedAttributeData,     \* AbilityHeroAttributesPage: memo, the rows of the attribute table
    sortedAttackTypeData,    \* AbilityHeroAttributesPage: memo, the rows of the attack type table
    tableEvent,         \* AbilityHeroAttributesPage: the handler that ran last
    route,              \* the page the router shows: HeroDetailPage or AbilityPairsPage
    heroId,             \* HeroDetailPage: the heroId parameter of the route
    queryStatus,        \* the status of each query of the page shown
    screen,             \* what the page shown renders: a message and sections
    searchSteamIds,     \* DistributionPage: state, the text of the player search box
    debouncedSteamIds,  \* DistributionPage: useDebounce's debouncedValue
    timer,              \* DistributionPage: ms since useDebounce armed its timeout, or null
    searches,           \* DistributionPage: the searchPlayers calls, in the order started
    searchResults,      \* DistributionPage: state, the players displayed
    searchError         \* DistributionPage: state, the message displayed

refVars == <<heroes, abilities>>
pageVars == <<pairsResponse, abilitiesResponse, tripletsResponse, excludeSameHero,
              abilityWinRateMap, pairPicksMap, hiddenTriplesMap, statsData>>
distVars == <<playersResponse, distributionData, totalPlayers, cumulativeData,
              meanRating, chartLines, quartileCall>>
curveVars == <<apiResponse, winrateType, chartData, drawnSeries>>
queryVars == <<query>>
patchVars == <<historicData, urlPatch, patches, currentPatch, prevPatch, issued>>
\* The variables of the parts modelled after the query client.
tableVars == <<attributesResponse, viewMode, sortField, sortDir, searchQuery,
               attributeData, attackTypeData, filteredAttributeData,
               filteredAttackTypeData, sortedAttributeData, sortedAttackTypeData,
               tableEvent>>
sectionVars == <<route, heroId, queryStatus, screen>>
searchVars == <<searchSteamIds, debouncedSteamIds, timer, searches, searchResults,
                searchError>>
laterVars == <<patchVars, tableVars, sectionVars, searchVars>>
\* The variables of the parts modelled up to the query client.
earlierVars == <<refVars, call, synergyCall, pageVars, distVars, curveVars, queryVars>>
vars == <<heroes, abilities, call, synergyCall, pairsResponse, abilitiesResponse,
          tripletsResponse, excludeSameHero, abilityWinRateMap, pairPicksMap,
          hiddenTriplesMap, statsData, playersResponse, distributionData,
          totalPlayers, cumulativeData, meanRating, chartLines, quartileCall,
          apiResponse, winrateType, chartData, drawnSeries, query,
          historicData, urlPatch, patches, currentPatch, prevPatch, issued,
          attributesResponse, viewMode, sortField, sortDir, searchQuery,
          attributeData, attackTypeData, filteredAttributeData,
          filteredAttackTypeData, sortedAttributeData, sortedAttackTypeData,
          tableEvent, route, heroId, queryStatus, screen,
          searchSteamIds, debouncedSteamIds, timer, searches, searchResults,
          searchError>>

---------------------------------------------------------------------------
(* Bounds of the model. *)

\* Hero ids and ability ids of the reference tables range over 1..MaxId;
\* the resolver is called with ids in -(MaxId+1)..(MaxId+1).
MaxId == 2
\* Longest /ability-pairs list.
MaxPairs == 1
\* Longest /ability-triplets list.
MaxTriplets == 1
\* Most rating bands of a /players response.
MaxBands == 3
\* Most rows of the picks array of an /abilities/:id response.
MaxRows == 2
\* The patch list of /heroes/historic has at most MaxPatches entries.
MaxPatches == 4
\* Most calls of searchPlayers in one behaviour.
MaxSearches == 2

---------------------------------------------------------------------------
(* JavaScript values. *)

Undefined == [t |-> "undefined"]
Null == [t |-> "null"]
Num(n) == [t |-> "number", v |-> n]
Str(s) == [t |-> "string", v |-> s]
Bool(b) == [t |-> "boolean", v |-> b]
Obj(r) == [t |-> "object", v |-> r]
\* The value of an expression whose evaluation throws.
TypeError == [t |-> "TypeError"]

\* x == null, x != null
IsNullish(x) == x.t \in {"undefined", "null"}
\* x ?? d
Coalesce(x, d) == IF IsNullish(x) THEN d ELSE x
\* the condition of `x ? a : b`
Truthy(x) ==
    CASE x.t = "number" -> x.v # 0
      [] x.t = "string" -> x.v # ""
      [] x.t = "boolean" -> x.v
      [] x.t = "object" -> TRUE
      [] OTHER -> FALSE
\* o?.f
OptGet(o, f) == IF IsNullish(o) THEN Undefined ELSE o.v[f]
\* o.f, which throws on undefined and null
Get(o, f) == IF IsNullish(o) THEN TypeError ELSE o.v[f]
\* `${x}` inside a template string
Template(x) == IF x.t = "number" THEN ToString(x.v) ELSE x.t
\* Math.abs
Abs(n) == IF n < 0 THEN -n ELSE n

---------------------------------------------------------------------------
(* Reference data (the data module: static hero and ability tables). *)

HeroIds == 1..MaxId
AbilityIds == 1..MaxId

\* The Hero record of the catalog; only the fields the resolver reads.
HeroRecord(id) ==
    [id |-> Num(id),
     englishName |-> Str("Hero" \o ToString(id)),
     picture |-> Str("hero" \o ToString(id) \o ".png")]

\* The Ability record of the catalog with the given owner (a number or null).
\* isUltimate is boolean | null: odd ids are ultimates, even ids carry null.
AbilityRecord(id, owner) ==
    [englishName |-> Str("Ability" \o ToString(id)),
     shortName |-> Str("ability_" \o ToString(id)),
     isUltimate |-> IF id % 2 = 1 THEN Bool(TRUE) ELSE Null,
     ownerHeroId |-> owner]

Owners == {Null} \cup {Num(h) : h \in HeroIds}

\* Every hero table: any subset of the catalog, the empty one included.
HeroTables == {[id \in S |-> HeroRecord(id)] : S \in SUBSET HeroIds}

\* Every assignment of owners to a subset of the catalog's abilities.
OwnerMaps == UNION {[S -> Owners] : S \in SUBSET AbilityIds}

AbilityTable(owners) == [id \in DOMAIN owners |-> AbilityRecord(id, owners[id])]

\* Every ability table: any subset of the catalog, each ability with any owner.
AbilityTables == {AbilityTable(o) : o \in OwnerMaps}

getHeroById(id) == IF id \in DOMAIN heroes THEN Obj(heroes[id]) ELSE Undefined

getAbilityById(id) == IF id \in DOMAIN abilities THEN Obj(abilities[id]) ELSE Undefined

---------------------------------------------------------------------------
(* The resolvers. *)

\* Mutant of resolveAbility: heroId is the signed id (Math.abs forgotten).
resolveAbility_signedHeroId(abilityId, ownerHero) ==
    LET isHeroAbility == abilityId < 0
        heroIdFromAbility == IF isHeroAbility THEN Num(abilityId) ELSE Undefined
        hero == IF Truthy(heroIdFromAbility)
                THEN getHeroById(heroIdFromAbility.v) ELSE Undefined
        ability == IF ~isHeroAbility THEN getAbilityById(abilityId) ELSE Undefined
        ownerHeroId == IF isHeroAbility THEN heroIdFromAbility ELSE ownerHero
        ownerHeroData == IF Truthy(ownerHeroId)
                         THEN getHeroById(ownerHeroId.v) ELSE Undefined
    IN  [abilityId |-> abilityId,
         abilityName |->
            IF isHeroAbility
            THEN Coalesce(OptGet(hero, "englishName"),
                          Str("Hero #" \o Template(heroIdFromAbility)))
            ELSE Coalesce(OptGet(ability, "englishName"),
                          Str("Ability #" \o Template(Num(abilityId)))),
         shortName |-> Coalesce(OptGet(ability, "shortName"), Str("")),
         isUltimate |-> Coalesce(OptGet(ability, "isUltimate"), Bool(FALSE)),
         isHeroAbility |-> isHeroAbility,
         heroId |-> heroIdFromAbility,
         heroPicture |-> OptGet(hero, "picture"),
         ownerHeroId |-> ownerHeroId,
         ownerHeroName |-> OptGet(ownerHeroData, "englishName")]

\* Mutant of resolveAbility: hero.englishName and ability.englishName without `?.`.
resolveAbility_noOptionalChaining(abilityId, ownerHero) ==
    LET isHeroAbility == abilityId < 0
        heroIdFromAbility == IF isHeroAbility THEN Num(Abs(abilityId)) ELSE Undefined
        hero == IF Truthy(heroIdFromAbility)
                THEN getHeroById(heroIdFromAbility.v) ELSE Undefined
        ability == IF ~isHeroAbility THEN getAbilityById(abilityId) ELSE Undefined
        ownerHeroId == IF isHeroAbility THEN heroIdFromAbility ELSE ownerHero
        ownerHeroData == IF Truthy(ownerHeroId)
                         THEN getHeroById(ownerHeroId.v) ELSE Undefined
    IN  [abilityId |-> abilityId,
         abilityName |->
            IF isHeroAbility
            THEN Coalesce(Get(hero, "englishName"),
                          Str("Hero #" \o Template(heroIdFromAbility)))
            ELSE Coalesce(Get(ability, "englishName"),
                          Str("Ability #" \o Template(Num(abilityId)))),
         shortName |-> Coalesce(OptGet(ability, "shortName"), Str("")),
         isUltimate |-> Coalesce(OptGet(ability, "isUltimate"), Bool(FALSE)),
         isHeroAbility |-> isHeroAbility,
         heroId |-> heroIdFromAbility,
         heroPicture |-> OptGet(hero, "picture"),
         ownerHeroId |-> ownerHeroId,
         ownerHeroName |-> OptGet(ownerHeroData, "englishName")]

\* Mutant of resolveAbility: heroId is Math.abs(abilityId) on both branches.
resolveAbility_heroIdAlways(abilityId, ownerHero) ==
    LET isHeroAbility == abilityId < 0
        heroIdFromAbility == Num(Abs(abilityId))
        hero == IF Truthy(heroIdFromAbility)
                THEN getHeroById(heroIdFromAbility.v) ELSE Undefined
        ability == IF ~isHeroAbility THEN getAbilityById(abilityId) ELSE Undefined
        ownerHeroId == IF isHeroAbility THEN heroIdFromAbility ELSE ownerHero
        ownerHeroData == IF Truthy(ownerHeroId)
                         THEN getHeroById(ownerHeroId.v) ELSE Undefined
    IN  [abilityId |-> abilityId,
         abilityName |->
            IF isHeroAbility
            THEN Coalesce(OptGet(hero, "englishName"),
                          Str("Hero #" \o Template(heroIdFromAbility)))
            ELSE Coalesce(OptGet(ability, "englishName"),
                          Str("Ability #" \o Template(Num(abilityId)))),
         shortName |-> Coalesce(OptGet(ability, "shortName"), Str("")),
         isUltimate |-> Coalesce(OptGet(ability, "isUltimate"), Bool(FALSE)),
         isHeroAbility |-> isHeroAbility,
         heroId |-> heroIdFromAbility,
         heroPicture |-> OptGet(hero, "picture"),
         ownerHeroId |-> ownerHeroId,
         ownerHeroName |-> OptGet(ownerHeroData, "englishName")]

\* utils/abilityHelpers.ts: the shared helper.
resolveAbility(abilityId, ownerHero) ==
    LET isHeroAbility == abilityId < 0
        heroIdFromAbility == IF isHeroAbility THEN Num(Abs(abilityId)) ELSE Undefined
        hero == IF Truthy(heroIdFromAbility)
                THEN getHeroById(heroIdFromAbility.v) ELSE Undefined
        ability == IF ~isHeroAbility THEN getAbilityById(abilityId) ELSE Undefined
        ownerHeroId == IF isHeroAbility THEN heroIdFromAbility ELSE ownerHero
        ownerHeroData == IF Truthy(ownerHeroId)
                         THEN getHeroById(ownerHeroId.v) ELSE Undefined
    IN  [abilityId |-> abilityId,
         abilityName |->
            IF isHeroAbility
            THEN Coalesce(OptGet(hero, "englishName"),
                          Str("Hero #" \o Template(heroIdFromAbility)))
            ELSE Coalesce(OptGet(ability, "englishName"),
                          Str("Ability #" \o Template(Num(abilityId)))),
         shortName |-> Coalesce(OptGet(ability, "shortName"), Str("")),
         isUltimate |-> Coalesce(OptGet(ability, "isUltimate"), Bool(FALSE)),
         isHeroAbility |-> isHeroAbility,
         heroId |-> heroIdFromAbility,
         heroPicture |-> OptGet(hero, "picture"),
         ownerHeroId |-> ownerHeroId,
         ownerHeroName |-> OptGet(ownerHeroData, "englishName")]

\* pages/AbilityPairs: the page-local helper of the pair and triple computations.
resolveAbilityInfo(abilityId) ==
    LET isHeroAbility == abilityId < 0
        heroIdFromAbility == IF isHeroAbility THEN Num(Abs(abilityId)) ELSE Undefined
        hero == IF Truthy(heroIdFromAbility)
                THEN getHeroById(heroIdFromAbility.v) ELSE Undefined
        ability == IF ~isHeroAbility THEN getAbilityById(abilityId) ELSE Undefined
    IN  [abilityId |-> abilityId,
         abilityName |->
            IF isHeroAbility
            THEN Coalesce(OptGet(hero, "englishName"),
                          Str("Hero #" \o Template(heroIdFromAbility)))
            ELSE Coalesce(OptGet(ability, "englishName"),
                          Str("Ability #" \o Template(Num(abilityId)))),
         shortName |-> Coalesce(OptGet(ability, "shortName"), Str("")),
         isUltimate |-> Coalesce(OptGet(ability, "isUltimate"), Bool(FALSE)),
         isHeroAbility |-> isHeroAbility,
         heroId |-> heroIdFromAbility,
         heroPicture |-> OptGet(hero, "picture"),
         ownerHeroId |-> IF isHeroAbility THEN heroIdFromAbility
                         ELSE OptGet(ability, "ownerHeroId")]

\* pages/AbilityDetail: its own copy of the page-local helper.
AbilityDetail_resolveAbilityInfo(abilityId) ==
    LET isHeroAbility == abilityId < 0
        heroIdFromAbility == IF isHeroAbility THEN Num(Abs(abilityId)) ELSE Undefined
        hero == IF Truthy(heroIdFromAbility)
                THEN getHeroById(heroIdFromAbility.v) ELSE Undefined
        ability == IF ~isHeroAbility THEN getAbilityById(abilityId) ELSE Undefined
    IN  [abilityId |-> abilityId,
         abilityName |->
            IF isHeroAbility
            THEN Coalesce(OptGet(hero, "englishName"),
                          Str("Hero #" \o Template(heroIdFromAbility)))
            ELSE Coalesce(OptGet(ability, "englishName"),
                          Str("Ability #" \o Template(Num(abilityId)))),
         shortName |-> Coalesce(OptGet(ability, "shortName"), Str("")),
         isUltimate |-> Coalesce(OptGet(ability, "isUltimate"), Bool(FALSE)),
         isHeroAbility |-> isHeroAbility,
         heroId |-> heroIdFromAbility,
         heroPicture |-> OptGet(hero, "picture"),
         ownerHeroId |-> IF isHeroAbility THEN heroIdFromAbility
                         ELSE OptGet(ability, "ownerHeroId")]

\* pages/Abilities statsData: the row of one ability stat, resolved in line;
\* stat.ownerHero is the owner hint of the API row.
AbilitiesPage_statsRow(stat) ==
    LET isHeroAbility == stat.abilityId < 0
        heroIdFromAbility == IF isHeroAbility THEN Num(Abs(stat.abilityId)) ELSE Undefined
        hero == IF Truthy(heroIdFromAbility)
                THEN getHeroById(heroIdFromAbility.v) ELSE Undefined
        ability == IF ~isHeroAbility THEN getAbilityById(stat.abilityId) ELSE Undefined
        ownerHeroId == IF isHeroAbility THEN heroIdFromAbility ELSE stat.ownerHero
        ownerHeroData == IF Truthy(ownerHeroId)
                         THEN getHeroById(ownerHeroId.v) ELSE Undefined
    IN  [abilityId |-> stat.abilityId,
         abilityName |->
            IF isHeroAbility
            THEN Coalesce(OptGet(hero, "englishName"),
                          Str("Hero #" \o Template(heroIdFromAbility)))
            ELSE Coalesce(OptGet(ability, "englishName"),
                          Str("Ability #" \o Template(Num(stat.abilityId)))),
         shortName |-> Coalesce(OptGet(ability, "shortName"), Str("")),
         isUltimate |-> Coalesce(OptGet(ability, "isUltimate"), Bool(FALSE)),
         isHeroAbility |-> isHeroAbility,
         heroId |-> heroIdFromAbility,
         heroPicture |-> OptGet(hero, "picture"),
         ownerHeroId |-> ownerHeroId,
         ownerHeroName |-> Coalesce(OptGet(ownerHeroData, "englishName"), Str(""))]

---------------------------------------------------------------------------
(* Numbers. *)

\* x * 100 on a fixed-point number: an API win rate (a fraction) as a percentage.
Pct(x) == x * 100

RECURSIVE SqrtFloor(_, _, _)
\* The largest r in lo..hi with r * r <= n.
SqrtFloor(n, lo, hi) ==
    IF lo >= hi THEN lo
    ELSE LET mid == (lo + hi + 1) \div 2
         IN  IF mid * mid <= n THEN SqrtFloor(n, mid, hi) ELSE SqrtFloor(n, lo, mid - 1)

\* Math.sqrt of the product of two fixed-point numbers, as a fixed-point
\* number rounded to the nearest unit: sqrt((a/100) * (b/100)) = sqrt(a * b) / 100.
MathSqrtOfProduct(a, b) ==
    LET n == a * b
        \* sqrt(a * b) lies between 0 and the larger of a and b
        r == SqrtFloor(n, 0, IF a > b THEN a ELSE b)
    IN  IF n - r * r > r THEN r + 1 ELSE r

---------------------------------------------------------------------------
(* The synergy score. *)

\* Mutant of synergy: the baseline is the arithmetic mean.
synergy_arithmeticMean(winRateOne, winRateTwo, pairWinRate) ==
    IF /\ winRateOne # Null /\ winRateTwo # Null
       /\ winRateOne.v > 0 /\ winRateTwo.v > 0
    THEN Num(pairWinRate - ((winRateOne.v + winRateTwo.v) \div 2))
    ELSE Null

\* pages/AbilityPairs statsData: pair win rate minus the geometric mean of the
\* two individual win rates (numbers or null).
synergy(winRateOne, winRateTwo, pairWinRate) ==
    IF /\ winRateOne # Null /\ winRateTwo # Null
       /\ winRateOne.v > 0 /\ winRateTwo.v > 0
    THEN LET geometricMean == MathSqrtOfProduct(winRateOne.v, winRateTwo.v)
         IN  Num(pairWinRate - geometricMean)
    ELSE Null

\* pages/AbilityDetail pairsData: the same score, of the page's ability and
\* the other ability of the pair.
AbilityDetail_synergy(currentWinRate, otherWinRate, pairWinRate) ==
    IF /\ currentWinRate # Null /\ otherWinRate # Null
       /\ currentWinRate.v > 0 /\ otherWinRate.v > 0
    THEN LET geometricMean == MathSqrtOfProduct(currentWinRate.v, otherWinRate.v)
         IN  Num(pairWinRate - geometricMean)
    ELSE Null

---------------------------------------------------------------------------
(* The ability-pairs page: pair rows, hidden triples, hero exclusion. *)

\* record[key], undefined when the key is missing.
Lookup(map, key) == IF key \in DOMAIN map THEN map[key] ELSE Undefined

\* The last index of a non-empty set of indices.
Last(S) == CHOOSE i \in S : \A j \in S : j <= i

\* `${a}-${b}`, the key of a pair in pairPicksMap and hiddenTriplesMap.
PairKey(a, b) == ToString(a) \o "-" \o ToString(b)

\* abilityWinRateMap: ability id -> win rate in percent; a later stat of the
\* same ability overwrites an earlier one.
BuildAbilityWinRateMap(response) ==
    IF IsNullish(response) THEN << >>
    ELSE LET stats == response.v
             ids == {stats[i].abilityId : i \in DOMAIN stats}
         IN  [id \in ids |->
                 Num(Pct(stats[Last({i \in DOMAIN stats : stats[i].abilityId = id})].winrate))]

\* pairPicksMap: pair key -> numPicks, keyed in the order of the pair record.
BuildPairPicksMap(response) ==
    IF IsNullish(response) THEN << >>
    ELSE LET pairs == response.v
             keys == {PairKey(pairs[i].abilityIdOne, pairs[i].abilityIdTwo) : i \in DOMAIN pairs}
         IN  [k \in keys |->
                 pairs[Last({i \in DOMAIN pairs :
                     PairKey(pairs[i].abilityIdOne, pairs[i].abilityIdTwo) = k})].numPicks]

\* The implied pairs of a triplet: [pairId1, pairId2, hiddenAbilityId].
impliedPairs(triplet) ==
    LET a == triplet.abilityIdOne
        b == triplet.abilityIdTwo
        c == triplet.abilityIdThree
    IN  << <<a, b, c>>, <<a, c, b>>, <<b, c, a>> >>

anyTwoShareHero(pairId1, pairId2, hiddenId) ==
    LET hero1 == resolveAbilityInfo(pairId1).ownerHeroId
        hero2 == resolveAbilityInfo(pairId2).ownerHeroId
        heroHidden == resolveAbilityInfo(hiddenId).ownerHeroId
    IN  \/ (~IsNullish(hero1) /\ hero1 = hero2)
        \/ (~IsNullish(hero1) /\ hero1 = heroHidden)
        \/ (~IsNullish(hero2) /\ hero2 = heroHidden)

\* The threshold factors 0.60 and 0.0001 are held in units of 1/FactorScale.
FactorScale == 10000
SameHeroFactor == 6000
OtherFactor == 1

\* Mutant of thresholdFactor: the hero overlap is ignored.
thresholdFactor_ignoresOverlap(share) == OtherFactor

thresholdFactor(share) == IF share THEN SameHeroFactor ELSE OtherFactor

\* tripletPicks >= thresholdFactor * pairPicks
meetsThreshold(tripletPicks, pairPicks, share) ==
    tripletPicks * FactorScale >= thresholdFactor(share) * pairPicks

\* The entry pushed for a flagged implied pair.
hiddenTripleEntry(hiddenId, triplet) ==
    LET info == resolveAbilityInfo(hiddenId)
    IN  [abilityId |-> info.abilityId,
         abilityName |-> info.abilityName,
         shortName |-> info.shortName,
         isUltimate |-> info.isUltimate,
         isHeroAbility |-> info.isHeroAbility,
         heroId |-> info.heroId,
         heroPicture |-> info.heroPicture,
         ownerHeroId |-> info.ownerHeroId,
         numPicks |-> triplet.numPicks,
         winrate |-> Pct(triplet.winrate),
         winrateShift |-> 0]

\* One pass of the inner loop with a missing pair pick count read as 0.
checkImpliedPair_missingIsZero(map, picksMap, triplet, j) ==
    LET ip == impliedPairs(triplet)[j]
        pairKey == PairKey(ip[1], ip[2])
        pairPicks == IF pairKey \in DOMAIN picksMap THEN picksMap[pairKey] ELSE 0
    IN  IF meetsThreshold(triplet.numPicks, pairPicks, anyTwoShareHero(ip[1], ip[2], ip[3]))
        THEN LET existing == IF pairKey \in DOMAIN map THEN map[pairKey] ELSE << >>
             IN  [k \in DOMAIN map \cup {pairKey} |->
                     IF k = pairKey THEN Append(existing, hiddenTripleEntry(ip[3], triplet))
                     ELSE map[k]]
        ELSE map

\* One pass of the inner loop: implied pair j of the triplet, on the map so far.
checkImpliedPair(map, picksMap, triplet, j) ==
    LET ip == impliedPairs(triplet)[j]
        pairKey == PairKey(ip[1], ip[2])
    IN  IF pairKey \notin DOMAIN picksMap THEN map
        ELSE IF meetsThreshold(triplet.numPicks, picksMap[pairKey],
                               anyTwoShareHero(ip[1], ip[2], ip[3]))
        THEN LET existing == IF pairKey \in DOMAIN map THEN map[pairKey] ELSE << >>
             IN  [k \in DOMAIN map \cup {pairKey} |->
                     IF k = pairKey THEN Append(existing, hiddenTripleEntry(ip[3], triplet))
                     ELSE map[k]]
        ELSE map

RECURSIVE hiddenTriplesLoop(_, _, _, _)
\* The loops over the triplets from index i on, and over their implied pairs.
hiddenTriplesLoop(map, picksMap, triplets, i) ==
    IF i > Len(triplets) THEN map
    ELSE LET m1 == checkImpliedPair(map, picksMap, triplets[i], 1)
             m2 == checkImpliedPair(m1, picksMap, triplets[i], 2)
             m3 == checkImpliedPair(m2, picksMap, triplets[i], 3)
         IN  hiddenTriplesLoop(m3, picksMap, triplets, i + 1)

\* hiddenTriplesMap: pair key -> the hidden triples of the pair.
BuildHiddenTriplesMap(response, picksMap) ==
    IF IsNullish(response) \/ DOMAIN picksMap = {} THEN << >>
    ELSE hiddenTriplesLoop(<< >>, picksMap, response.v, 1)

\* Mutant of winrateShiftOf: the placeholder of the detection map is kept.
winrateShiftOf_placeholder(triple, pairWinRate) == triple.winrateShift

\* triplet win rate - pair win rate
winrateShiftOf(triple, pairWinRate) == triple.winrate - pairWinRate

\* Mutant of keepHiddenTriple: only the first member of the pair is compared.
keepHiddenTriple_firstOnly(triple, one, two, exclude) ==
    IF ~exclude THEN TRUE
    ELSE IF IsNullish(triple.ownerHeroId) THEN TRUE
    ELSE IF ~IsNullish(one.ownerHeroId) /\ triple.ownerHeroId = one.ownerHeroId THEN FALSE
    ELSE TRUE

\* The filter of the hidden triples of a row.
keepHiddenTriple(triple, one, two, exclude) ==
    IF ~exclude THEN TRUE
    ELSE IF IsNullish(triple.ownerHeroId) THEN TRUE
    ELSE IF ~IsNullish(one.ownerHeroId) /\ triple.ownerHeroId = one.ownerHeroId THEN FALSE
    ELSE IF ~IsNullish(two.ownerHeroId) /\ triple.ownerHeroId = two.ownerHeroId THEN FALSE
    ELSE TRUE

\* The filter of the rows.
keepRow(row, exclude) ==
    IF ~exclude THEN TRUE
    ELSE IF IsNullish(row.ownerHeroIdOne) \/ IsNullish(row.ownerHeroIdTwo) THEN TRUE
    ELSE row.ownerHeroIdOne # row.ownerHeroIdTwo

\* The rows with fewer picks than this are not shown.
MinPicks == 50

\* Array.prototype.filter
Filter(seq, Keep(_)) == SelectSeq(seq, Keep)

RECURSIVE InsertByShift(_, _)
\* e inserted into a list sorted by winrateShift descending, after the
\* entries of equal shift (Array.prototype.sort is stable).
InsertByShift(sorted, e) ==
    IF sorted = << >> THEN <<e>>
    ELSE IF Head(sorted).winrateShift >= e.winrateShift
         THEN <<Head(sorted)>> \o InsertByShift(Tail(sorted), e)
         ELSE <<e>> \o sorted

RECURSIVE SortByShiftDesc(_)
\* .sort((a, b) => b.winrateShift - a.winrateShift)
SortByShiftDesc(seq) ==
    IF seq = << >> THEN << >>
    ELSE InsertByShift(SortByShiftDesc(SubSeq(seq, 1, Len(seq) - 1)), seq[Len(seq)])

\* The row of one pair record, before the row filters.
pairRow(pair, winRateMap, triplesMap, exclude) ==
    LET one == resolveAbilityInfo(pair.abilityIdOne)
        two == resolveAbilityInfo(pair.abilityIdTwo)
        winRateOne == Coalesce(Lookup(winRateMap, pair.abilityIdOne), Null)
        winRateTwo == Coalesce(Lookup(winRateMap, pair.abilityIdTwo), Null)
        pairWinRate == Pct(pair.winrate)
        pairKey == PairKey(pair.abilityIdOne, pair.abilityIdTwo)
        rawHiddenTriples == IF pairKey \in DOMAIN triplesMap THEN triplesMap[pairKey] ELSE << >>
        shifted == [i \in DOMAIN rawHiddenTriples |->
                       [rawHiddenTriples[i] EXCEPT
                           !.winrateShift = winrateShiftOf(rawHiddenTriples[i], pairWinRate)]]
        Keep(triple) == keepHiddenTriple(triple, one, two, exclude)
    IN  [key |-> pairKey,
         abilityIdOne |-> one.abilityId,
         abilityNameOne |-> one.abilityName,
         shortNameOne |-> one.shortName,
         isUltimateOne |-> one.isUltimate,
         isHeroAbilityOne |-> one.isHeroAbility,
         heroIdOne |-> one.heroId,
         heroPictureOne |-> one.heroPicture,
         ownerHeroIdOne |-> one.ownerHeroId,
         winRateOne |-> winRateOne,
         abilityIdTwo |-> two.abilityId,
         abilityNameTwo |-> two.abilityName,
         shortNameTwo |-> two.shortName,
         isUltimateTwo |-> two.isUltimate,
         isHeroAbilityTwo |-> two.isHeroAbility,
         heroIdTwo |-> two.heroId,
         heroPictureTwo |-> two.heroPicture,
         ownerHeroIdTwo |-> two.ownerHeroId,
         winRateTwo |-> winRateTwo,
         picks |-> pair.numPicks,
         wins |-> pair.wins,
         pairWinRate |-> pairWinRate,
         synergy |-> synergy(winRateOne, winRateTwo, pairWinRate),
         hiddenTriples |-> SortByShiftDesc(Filter(shifted, Keep))]

\* statsData: the rows of the table.
BuildStatsData(response, winRateMap, exclude, triplesMap) ==
    IF IsNullish(response) THEN << >>
    ELSE LET pairs == response.v
             rows == [i \in DOMAIN pairs |-> pairRow(pairs[i], winRateMap, triplesMap, exclude)]
             EnoughPicks(row) == row.picks >= MinPicks
             KeepRow(row) == keepRow(row, exclude)
         IN  Filter(Filter(rows, EnoughPicks), KeepRow)

\* A render of the page: every memo recomputed from the query data and the flag.
Rendered(pairs, stats, triplets, exclude) ==
    LET winRateMap == BuildAbilityWinRateMap(stats)
        picksMap == BuildPairPicksMap(pairs)
        triplesMap == BuildHiddenTriplesMap(triplets, picksMap)
    IN  /\ abilityWinRateMap' = winRateMap
        /\ pairPicksMap' = picksMap
        /\ hiddenTriplesMap' = triplesMap
        /\ statsData' = BuildStatsData(pairs, winRateMap, exclude, triplesMap)

---------------------------------------------------------------------------
(* The resolver under every reference table and every id. *)

NoCall == [fn |-> "none"]

\* The ids the resolvers are called with: hero bodies, 0, abilities, and on
\* both sides one id that no reference table holds.
CallIds == (-(MaxId + 1))..(MaxId + 1)

\* The optional owner-hero hint: absent, or a hero id (known or unknown).
Hints == {Undefined} \cup {Num(h) : h \in 1..(MaxId + 1)}

\* The page is not mounted while the resolver or the synergy is exercised.
PageUnmounted ==
    /\ pairsResponse = Undefined
    /\ abilitiesResponse = Undefined
    /\ tripletsResponse = Undefined
    /\ excludeSameHero = FALSE
    /\ abilityWinRateMap = Undefined
    /\ pairPicksMap = Undefined
    /\ hiddenTriplesMap = Undefined
    /\ statsData = Undefined

\* The distribution page is not mounted.
DistributionUnmounted ==
    /\ playersResponse = Undefined
    /\ distributionData = Undefined
    /\ totalPlayers = Undefined
    /\ cumulativeData = Undefined
    /\ meanRating = Undefined
    /\ chartLines = Undefined
    /\ quartileCall = NoCall

\* The ability-detail page is not mounted.
AbilityDetailUnmounted ==
    /\ apiResponse = Undefined
    /\ winrateType = Undefined
    /\ chartData = Undefined
    /\ drawnSeries = Undefined

\* No query is observed.
QueryUnobserved == query = Undefined

\* No patch selector is mounted.
PatchSelectionUnmounted ==
    /\ historicData = Undefined
    /\ urlPatch = Undefined
    /\ patches = Undefined
    /\ currentPatch = Undefined
    /\ prevPatch = Undefined
    /\ issued = Undefined

\* AbilityHeroAttributesPage is not mounted.
TableUnmounted ==
    /\ attributesResponse = Undefined
    /\ viewMode = Undefined
    /\ sortField = Undefined
    /\ sortDir = Undefined
    /\ searchQuery = Undefined
    /\ attributeData = Undefined
    /\ attackTypeData = Undefined
    /\ filteredAttributeData = Undefined
    /\ filteredAttackTypeData = Undefined
    /\ sortedAttributeData = Undefined
    /\ sortedAttackTypeData = Undefined
    /\ tableEvent = Undefined

\* No page whose sections are observed is shown.
SectionsUnmounted ==
    /\ route = Undefined
    /\ heroId = Undefined
    /\ queryStatus = Undefined
    /\ screen = Undefined

\* The player search of DistributionPage is not mounted.
SearchUnmounted ==
    /\ searchSteamIds = Undefined
    /\ debouncedSteamIds = Undefined
    /\ timer = Undefined
    /\ searches = Undefined
    /\ searchResults = Undefined
    /\ searchError = Undefined

\* None of the parts modelled after the query client is exercised.
LaterUnmounted ==
    /\ PatchSelectionUnmounted
    /\ TableUnmounted
    /\ SectionsUnmounted
    /\ SearchUnmounted

\* None of the parts modelled up to the query client is exercised.
EarlierUnmounted ==
    /\ heroes = << >>
    /\ abilities = << >>
    /\ call = NoCall
    /\ synergyCall = NoCall
    /\ PageUnmounted
    /\ DistributionUnmounted
    /\ AbilityDetailUnmounted
    /\ QueryUnobserved

InitResolver ==
    /\ DistributionUnmounted
    /\ AbilityDetailUnmounted
    /\ QueryUnobserved
    /\ heroes \in HeroTables
    /\ abilities \in AbilityTables
    /\ call = NoCall
    /\ LaterUnmounted
    /\ synergyCall = NoCall
    /\ PageUnmounted

CallResolveAbility ==
    \E id \in CallIds, hint \in Hints :
        /\ call = NoCall
        /\ call' = [fn |-> "resolveAbility", abilityId |-> id, ownerHero |-> hint,
                    result |-> resolveAbility(id, hint)]
        /\ UNCHANGED <<distVars, curveVars, queryVars, refVars, laterVars, synergyCall, pageVars>>

CallResolveAbilityInfo ==
    \E id \in CallIds :
        /\ call = NoCall
        /\ call' = [fn |-> "resolveAbilityInfo", abilityId |-> id, ownerHero |-> Undefined,
                    result |-> resolveAbilityInfo(id)]
        /\ UNCHANGED <<distVars, curveVars, queryVars, refVars, laterVars, synergyCall, pageVars>>

CallAbilityDetailResolveAbilityInfo ==
    \E id \in CallIds :
        /\ call = NoCall
        /\ call' = [fn |-> "AbilityDetail.resolveAbilityInfo", abilityId |-> id,
                    ownerHero |-> Undefined,
                    result |-> AbilityDetail_resolveAbilityInfo(id)]
        /\ UNCHANGED <<distVars, curveVars, queryVars, refVars, laterVars, synergyCall, pageVars>>

CallAbilitiesPageStatsRow ==
    \E id \in CallIds, hint \in Hints :
        /\ call = NoCall
        /\ call' = [fn |-> "AbilitiesPage.statsData", abilityId |-> id, ownerHero |-> hint,
                    result |-> AbilitiesPage_statsRow([abilityId |-> id, ownerHero |-> hint])]
        /\ UNCHANGED <<distVars, curveVars, queryVars, refVars, laterVars, synergyCall, pageVars>>

\* The caller has consumed the result: the next call can be made (the page code
\* is single-threaded, one resolver call runs at a time).
ReturnFromCall ==
    /\ call # NoCall
    /\ call' = NoCall
    /\ UNCHANGED <<distVars, curveVars, queryVars, refVars, laterVars, synergyCall, pageVars>>

NextResolver ==
    \/ ReturnFromCall
    \/ CallResolveAbility
    \/ CallResolveAbilityInfo
    \/ CallAbilityDetailResolveAbilityInfo
    \/ CallAbilitiesPageStatsRow

SpecResolver == InitResolver /\ [][NextResolver]_vars

Called == call.fn # "none"
CalledShared == call.fn = "resolveAbility"

---------------------------------------------------------------------------
(* Claims about the resolver (checked under SpecResolver). *)

\* C6: for every negative ability id the resolver returns isHeroAbility = TRUE,
\* heroId = |id| and ownerHeroId = |id|; for every positive id it returns
\* isHeroAbility = FALSE.  Stated of the shared helper and of every page-local
\* copy alike.
C6_NegativeIdIsHeroBody ==
    Called =>
        /\ call.abilityId < 0 =>
              /\ call.result.isHeroAbility = TRUE
              /\ call.result.heroId = Num(0 - call.abilityId)
              /\ call.result.ownerHeroId = Num(0 - call.abilityId)
        /\ call.abilityId > 0 => call.result.isHeroAbility = FALSE

\* C6 witness: a hero-body id has been resolved by the shared helper, with a
\* hint that names another hero, and the owner is the hero of the id.
C6_Witness ==
    /\ CalledShared
    /\ call.abilityId = 0 - MaxId
    /\ call.ownerHero = Num(1)
    /\ call.result.isHeroAbility
    /\ call.result.ownerHeroId = Num(MaxId)

\* The placeholder names of an id that the reference data does not hold.
HeroPlaceholder(n) == Str("Hero #" \o ToString(n))
AbilityPlaceholder(n) == Str("Ability #" \o ToString(n))

\* The id of the call is not in the reference data.
UnknownId ==
    IF call.abilityId < 0
    THEN (0 - call.abilityId) \notin DOMAIN heroes
    ELSE call.abilityId \notin DOMAIN abilities

\* C7 as stated: the resolver never raises, and the name of an id that is not
\* in the reference data is a placeholder containing the raw id,
\* "Ability #<id>" or "Hero #<id>".
C7_Original ==
    Called =>
        /\ call.result.abilityName.t = "string"
        /\ UnknownId =>
              call.result.abilityName \in
                  {AbilityPlaceholder(call.abilityId), HeroPlaceholder(call.abilityId)}

\* C7 amended: the resolver never raises for any id (negative, zero, positive)
\* and any reference tables, the empty ones included; the name of an unknown
\* id is "Ability #<id>" for id >= 0 and "Hero #<|id|>" for id < 0: the
\* placeholder of a hero body carries the hero id, not the raw negative id.
C7_TotalWithPlaceholder ==
    Called =>
        /\ call.result.abilityName.t = "string"
        /\ (UnknownId /\ call.abilityId >= 0) =>
              call.result.abilityName = AbilityPlaceholder(call.abilityId)
        /\ (UnknownId /\ call.abilityId < 0) =>
              call.result.abilityName = HeroPlaceholder(0 - call.abilityId)

\* C7 witness: the shared helper has resolved an unknown hero body against
\* empty reference tables and returned the placeholder of its hero id.
C7_Witness ==
    /\ CalledShared
    /\ DOMAIN heroes = {}
    /\ DOMAIN abilities = {}
    /\ call.abilityId = 0 - (MaxId + 1)
    /\ call.result.abilityName = HeroPlaceholder(MaxId + 1)

\* The owner recorded on the reference record of the call's ability, if any.
RecordedOwner ==
    IF call.abilityId \in DOMAIN abilities
    THEN abilities[call.abilityId].ownerHeroId
    ELSE Undefined

\* C8: for a non-hero-body id the resolver's ownerHeroId is the owner recorded
\* on the ability's reference record whenever it has one, and the caller's
\* hint only when it has none.
C8_RecordedOwnerFirst ==
    (CalledShared /\ call.abilityId >= 0) =>
        call.result.ownerHeroId =
            (IF IsNullish(RecordedOwner) THEN call.ownerHero ELSE RecordedOwner)

\* The hero identity of a resolved hero body: id, name and picture.
HeroIdentity(r) == <<r.heroId, r.abilityName, r.heroPicture>>
\* The same, from a look-up of hero h.
LookedUpIdentity(h) ==
    <<Num(h),
      Coalesce(OptGet(getHeroById(h), "englishName"), HeroPlaceholder(h)),
      OptGet(getHeroById(h), "picture")>>

\* Two owners are the same for a same-hero comparison: the same hero id, or
\* both missing (the comparisons of the pages test `!= null` first).
SameOwner(x, y) == (IsNullish(x) /\ IsNullish(y)) \/ x = y

\* C9: if resolving an id gives ownerHeroId = h, resolving the hero body -h
\* yields the hero identity of hero h, and the shared helper (called with the
\* id alone, no hint) and the page-local helpers give the same ownerHeroId
\* for the same id.
C9_OwnershipRoundTrip ==
    CalledShared =>
        /\ call.result.ownerHeroId.t = "number" =>
              HeroIdentity(resolveAbility(0 - call.result.ownerHeroId.v, Undefined))
                  = LookedUpIdentity(call.result.ownerHeroId.v)
        /\ call.ownerHero = Undefined =>
              /\ SameOwner(call.result.ownerHeroId,
                           resolveAbilityInfo(call.abilityId).ownerHeroId)
              /\ SameOwner(call.result.ownerHeroId,
                           AbilityDetail_resolveAbilityInfo(call.abilityId).ownerHeroId)

\* C10 as stated: the fields that do not apply to the resolved branch are
\* absent: no shortName or isUltimate for a hero body, no heroId or
\* heroPicture for a real ability.
C10_Original ==
    CalledShared =>
        /\ call.abilityId < 0 =>
              /\ call.result.shortName = Undefined
              /\ call.result.isUltimate = Undefined
        /\ call.abilityId > 0 =>
              /\ call.result.heroId = Undefined
              /\ call.result.heroPicture = Undefined

\* C10 amended: heroId and heroPicture are absent for every id that is not a
\* hero body; shortName and isUltimate are always present, and for a hero
\* body they are the empty string and false.
C10_AbsentHeroFieldsOnly ==
    CalledShared =>
        /\ call.abilityId < 0 =>
              /\ call.result.shortName = Str("")
              /\ call.result.isUltimate = Bool(FALSE)
        /\ call.abilityId >= 0 =>
              /\ call.result.heroId = Undefined
              /\ call.result.heroPicture = Undefined

\* C10 witness: a known ability that is an ultimate has been resolved with a
\* hint: its ability fields are set and its hero fields are absent.
C10_Witness ==
    /\ CalledShared
    /\ call.abilityId = 1
    /\ 1 \in DOMAIN abilities
    /\ call.ownerHero = Num(1)
    /\ 1 \in DOMAIN heroes
    /\ call.result.isUltimate = Bool(TRUE)
    /\ call.result.heroId = Undefined

---------------------------------------------------------------------------
(* The synergy score under every combination of win rates. *)

\* An individual win rate as the pages hold it: null (no stat for the
\* ability) or a percentage.
IndividualWinRates == {Null} \cup {Num(Pct(w)) : w \in {0, 25, 50, 60, 100}}

\* The win rate of a pair, a percentage.
PairWinRates == {Pct(w) : w \in {0, 50, 55, 60}}

InitSynergy ==
    /\ DistributionUnmounted
    /\ AbilityDetailUnmounted
    /\ QueryUnobserved
    /\ heroes = << >>
    /\ abilities = << >>
    /\ call = NoCall
    /\ LaterUnmounted
    /\ synergyCall = NoCall
    /\ PageUnmounted

ComputeSynergyAbilityPairs ==
    \E one \in IndividualWinRates, two \in IndividualWinRates, pair \in PairWinRates :
        /\ synergyCall = NoCall
        /\ synergyCall' = [fn |-> "AbilityPairsPage", winRateOne |-> one,
                           winRateTwo |-> two, pairWinRate |-> pair,
                           result |-> synergy(one, two, pair)]
        /\ UNCHANGED <<distVars, curveVars, queryVars, refVars, laterVars, call, pageVars>>

ComputeSynergyAbilityDetail ==
    \E one \in IndividualWinRates, two \in IndividualWinRates, pair \in PairWinRates :
        /\ synergyCall = NoCall
        /\ synergyCall' = [fn |-> "AbilityDetailPage", winRateOne |-> one,
                           winRateTwo |-> two, pairWinRate |-> pair,
                           result |-> AbilityDetail_synergy(one, two, pair)]
        /\ UNCHANGED <<distVars, curveVars, queryVars, refVars, laterVars, call, pageVars>>

\* The row has been built: the next one can be.
ReturnFromSynergy ==
    /\ synergyCall # NoCall
    /\ synergyCall' = NoCall
    /\ UNCHANGED <<distVars, curveVars, queryVars, refVars, laterVars, call, pageVars>>

NextSynergy ==
    \/ ComputeSynergyAbilityPairs
    \/ ComputeSynergyAbilityDetail
    \/ ReturnFromSynergy

SpecSynergy == InitSynergy /\ [][NextSynergy]_vars

\* The synergy has been computed from win rates (one, two, pair), in percent.
SynergyOf(one, two, pair) ==
    /\ synergyCall.fn # "none"
    /\ synergyCall.winRateOne = Num(Pct(one))
    /\ synergyCall.winRateTwo = Num(Pct(two))
    /\ synergyCall.pairWinRate = Pct(pair)

\* An individual win rate that leaves the synergy undefined: null or <= 0.
Unusable(w) == w = Null \/ w.v <= 0

\* C5: the synergy is null iff either individual win rate is null or <= 0,
\* whatever the pair win rate; otherwise the pair win rate minus the synergy
\* is the square root of the product of the two win rates (to the nearest
\* unit), so synergy(60,60,60) = 0 (a number, not null) and
\* synergy(50,50,55) = 5; both pages give the same result for the same inputs.
C5_Synergy ==
    synergyCall.fn # "none" =>
        LET one == synergyCall.winRateOne
            two == synergyCall.winRateTwo
            pair == synergyCall.pairWinRate
            res == synergyCall.result
            g == pair - res.v
        IN  /\ res = Null <=> (Unusable(one) \/ Unusable(two))
            /\ res # Null =>
                  /\ res.t = "number"
                  /\ g >= 0
                  /\ g * g - one.v * two.v <= g
                  /\ one.v * two.v - g * g <= g
            /\ SynergyOf(60, 60, 60) => res = Num(0)
            /\ SynergyOf(50, 50, 55) => res = Num(Pct(5))
            /\ res = synergy(one, two, pair)
            /\ res = AbilityDetail_synergy(one, two, pair)

\* C5 witness: the ability-pairs page has computed synergy(60,60,60) and
\* holds the number 0, not null.
C5_Witness ==
    /\ synergyCall.fn = "AbilityPairsPage"
    /\ SynergyOf(60, 60, 60)
    /\ synergyCall.result = Num(0)
    /\ synergyCall.result # Null

---------------------------------------------------------------------------
(* The ability-pairs page as a state machine. *)

\* The ids of the statistics: the body of hero 1, and abilities 1 and 2.
PageIds == {-1, 1, 2}

PageHeroTable == [id \in {1, 2} |-> HeroRecord(id)]

\* Two catalogs.  In the first, ability 1 belongs to hero 2 and ability 2 to
\* hero 1, so ability 2 shares its hero with the hero body -1.  In the second,
\* ability 1 is not in the catalog and no two of the three ids share a hero.
PageAbilityTables ==
    {AbilityTable((1 :> Num(2)) @@ (2 :> Num(1))), AbilityTable((2 :> Num(2)))}

\* wins of a record with the given picks and win rate (a fraction).
WinsOf(numPicks, winrate) == (numPicks * winrate) \div 100

\* The id pairs of /ability-pairs: abilityIdOne < abilityIdTwo.
PairIdPairs == {p \in PageIds \X PageIds : p[1] < p[2]}

\* The pick counts and win rates of the pairs.
PairStats ==
    {[numPicks |-> 40, winrate |-> 50], [numPicks |-> 1000, winrate |-> 50],
     [numPicks |-> 20000, winrate |-> 55]}

\* The records of /ability-pairs.
PairRecords ==
    {[abilityIdOne |-> p[1], abilityIdTwo |-> p[2], numPicks |-> st.numPicks,
      wins |-> WinsOf(st.numPicks, st.winrate), winrate |-> st.winrate] :
        p \in PairIdPairs, st \in PairStats}

\* The id triples of /ability-triplets: three distinct ids, in any order.
TripletIdTriples ==
    {t \in PageIds \X PageIds \X PageIds : t[1] # t[2] /\ t[1] # t[3] /\ t[2] # t[3]}

\* The pick counts and win rates of the triplets.
TripletStats == {[numPicks |-> 1, winrate |-> 60], [numPicks |-> 600, winrate |-> 50]}

\* The records of /ability-triplets.
TripletRecords ==
    {[abilityIdOne |-> t[1], abilityIdTwo |-> t[2], abilityIdThree |-> t[3],
      numPicks |-> st.numPicks, wins |-> WinsOf(st.numPicks, st.winrate),
      winrate |-> st.winrate] :
        t \in TripletIdTriples, st \in TripletStats}

\* Every list over S of length at most n.
ListsUpTo(S, n) == UNION {[1..k -> S] : k \in 0..n}

\* The abilityStats of /abilities: ability 2 has never won, the hero body -1
\* and ability 1 have.
AbilityStatsLists ==
    { << [abilityId |-> -1, winrate |-> 50], [abilityId |-> 1, winrate |-> 60],
         [abilityId |-> 2, winrate |-> 0] >> }

Init ==
    /\ DistributionUnmounted
    /\ AbilityDetailUnmounted
    /\ QueryUnobserved
    /\ heroes = PageHeroTable
    /\ abilities \in PageAbilityTables
    /\ call = NoCall
    /\ LaterUnmounted
    /\ synergyCall = NoCall
    /\ pairsResponse = Undefined
    /\ abilitiesResponse = Undefined
    /\ tripletsResponse = Undefined
    /\ excludeSameHero \in BOOLEAN
    /\ abilityWinRateMap = << >>
    /\ pairPicksMap = << >>
    /\ hiddenTriplesMap = << >>
    /\ statsData = << >>

\* The /ability-pairs query settles with data.
ReceivePairs ==
    \E list \in ListsUpTo(PairRecords, MaxPairs) :
        /\ pairsResponse = Undefined
        /\ pairsResponse' = Obj(list)
        /\ Rendered(pairsResponse', abilitiesResponse, tripletsResponse, excludeSameHero)
        /\ UNCHANGED <<distVars, curveVars, queryVars, refVars, laterVars, call, synergyCall, abilitiesResponse, tripletsResponse,
                       excludeSameHero>>

\* The /abilities query settles with data.
ReceiveAbilities ==
    \E list \in AbilityStatsLists :
        /\ abilitiesResponse = Undefined
        /\ abilitiesResponse' = Obj(list)
        /\ Rendered(pairsResponse, abilitiesResponse', tripletsResponse, excludeSameHero)
        /\ UNCHANGED <<distVars, curveVars, queryVars, refVars, laterVars, call, synergyCall, pairsResponse, tripletsResponse,
                       excludeSameHero>>

\* The /ability-triplets query settles with data.
ReceiveTriplets ==
    \E list \in ListsUpTo(TripletRecords, MaxTriplets) :
        /\ tripletsResponse = Undefined
        /\ tripletsResponse' = Obj(list)
        /\ Rendered(pairsResponse, abilitiesResponse, tripletsResponse', excludeSameHero)
        /\ UNCHANGED <<distVars, curveVars, queryVars, refVars, laterVars, call, synergyCall, pairsResponse, abilitiesResponse,
                       excludeSameHero>>

handleExcludeSameHeroToggle ==
    /\ excludeSameHero' = ~excludeSameHero
    /\ Rendered(pairsResponse, abilitiesResponse, tripletsResponse, excludeSameHero')
    /\ UNCHANGED <<distVars, curveVars, queryVars, refVars, laterVars, call, synergyCall, pairsResponse, abilitiesResponse,
                   tripletsResponse>>

\* Another patch is selected: the three queries are keyed by the patch, so
\* their data is undefined again until the new responses arrive.
PatchChanged ==
    /\ pairsResponse # Undefined \/ abilitiesResponse # Undefined
          \/ tripletsResponse # Undefined
    /\ pairsResponse' = Undefined
    /\ abilitiesResponse' = Undefined
    /\ tripletsResponse' = Undefined
    /\ Rendered(Undefined, Undefined, Undefined, excludeSameHero)
    /\ UNCHANGED <<distVars, curveVars, queryVars, refVars, laterVars, call, synergyCall, excludeSameHero>>

Next ==
    \/ ReceivePairs
    \/ ReceiveAbilities
    \/ ReceiveTriplets
    \/ handleExcludeSameHeroToggle
    \/ PatchChanged

Spec == Init /\ [][Next]_vars

---------------------------------------------------------------------------
(* Claims about the ability-pairs page (checked under Spec). *)

\* The owning hero of an id, read from the reference data: the hero of a hero
\* body, the recorded owner of an ability, none for an unknown ability.
OwnerOf(id) ==
    IF id < 0 THEN Num(0 - id)
    ELSE IF id \in DOMAIN abilities THEN abilities[id].ownerHeroId
    ELSE Undefined

\* Two ids resolve to the same owning hero.
ShareHero(x, y) == ~IsNullish(OwnerOf(x)) /\ OwnerOf(x) = OwnerOf(y)

AnyTwoShare(x, y, z) == ShareHero(x, y) \/ ShareHero(x, z) \/ ShareHero(y, z)

\* tripletPicks >= 0.60 x pairPicks with a hero overlap, >= 0.0001 x pairPicks without.
Flagged(tripletPicks, pairPicks, overlap) ==
    IF overlap THEN 100 * tripletPicks >= 60 * pairPicks
    ELSE 10000 * tripletPicks >= pairPicks

\* The triplet records received, none while the query is pending.
Triplets == IF IsNullish(tripletsResponse) THEN << >> ELSE tripletsResponse.v
Pairs == IF IsNullish(pairsResponse) THEN << >> ELSE pairsResponse.v

\* The three implied pairs of a triplet record, <<pairId1, pairId2, hiddenId>>.
Implied(t) ==
    { <<t.abilityIdOne, t.abilityIdTwo, t.abilityIdThree>>,
      <<t.abilityIdOne, t.abilityIdThree, t.abilityIdTwo>>,
      <<t.abilityIdTwo, t.abilityIdThree, t.abilityIdOne>> }

\* The hidden-triple map holds, under key k, an entry of triplet t with hidden id h.
HasEntry(k, h, t) ==
    /\ k \in DOMAIN hiddenTriplesMap
    /\ \E e \in DOMAIN hiddenTriplesMap[k] :
          /\ hiddenTriplesMap[k][e].abilityId = h
          /\ hiddenTriplesMap[k][e].numPicks = t.numPicks
          /\ hiddenTriplesMap[k][e].winrate = 100 * t.winrate

SortedPairKey(x, y) == IF x < y THEN PairKey(x, y) ELSE PairKey(y, x)

\* C2: for every triplet (a, b, c) all three implied pairs are considered with
\* the remaining id as hidden companion, and each emitted entry is stored
\* under the sorted pair id, so that it is found when the pair row (A,B) is
\* looked up, whatever the order of the three ids inside the triplet record.
C2_EntryUnderSortedPairKey ==
    \A i \in DOMAIN Triplets : \A ip \in Implied(Triplets[i]) :
        LET t == Triplets[i]
            k == SortedPairKey(ip[1], ip[2])
        IN  (/\ k \in DOMAIN pairPicksMap
             /\ Flagged(t.numPicks, pairPicksMap[k], AnyTwoShare(ip[1], ip[2], ip[3])))
                => HasEntry(k, ip[3], t)

\* C3: with the hero-exclusion filter enabled no row shows a pair whose two
\* members share an owning hero, and no row shows a hidden triple in which
\* any member shares an owning hero with any other member; with the filter
\* disabled it removes nothing: every pair with enough picks has its row,
\* and every row shows all the hidden triples detected for its pair.
C3_HeroExclusionFilter ==
    /\ excludeSameHero =>
          \A r \in DOMAIN statsData :
              LET row == statsData[r]
              IN  /\ ~ShareHero(row.abilityIdOne, row.abilityIdTwo)
                  /\ \A e \in DOMAIN row.hiddenTriples :
                        ~AnyTwoShare(row.abilityIdOne, row.abilityIdTwo,
                                     row.hiddenTriples[e].abilityId)
    /\ ~excludeSameHero =>
          /\ Len(statsData) = Cardinality({i \in DOMAIN Pairs : Pairs[i].numPicks >= 50})
          /\ \A r \in DOMAIN statsData :
                Len(statsData[r].hiddenTriples) =
                    (IF statsData[r].key \in DOMAIN hiddenTriplesMap
                     THEN Len(hiddenTriplesMap[statsData[r].key]) ELSE 0)

\* C3 witness: the filter is enabled and a row is shown whose pair has a
\* detected hidden triple that shares its hero with the second member of the
\* pair: the row shows no hidden triple.
C3_Witness ==
    /\ excludeSameHero
    /\ \E r \in DOMAIN statsData :
          LET row == statsData[r]
          IN  /\ row.key \in DOMAIN hiddenTriplesMap
              /\ \E e \in DOMAIN hiddenTriplesMap[row.key] :
                    /\ ShareHero(hiddenTriplesMap[row.key][e].abilityId, row.abilityIdTwo)
                    /\ ~ShareHero(hiddenTriplesMap[row.key][e].abilityId, row.abilityIdOne)
              /\ row.hiddenTriples = << >>

\* C4: in every pair row each attached hidden triple has
\* winrateShift = tripletWinRate - pairWinRate with the row's own pair win
\* rate (the win rate of the row's pair record); the detection map only
\* stores the placeholder 0, and no displayed hidden triple keeps it: a
\* displayed shift of 0 means the two win rates are equal.
C4_WinrateShift ==
    /\ \A k \in DOMAIN hiddenTriplesMap : \A e \in DOMAIN hiddenTriplesMap[k] :
          hiddenTriplesMap[k][e].winrateShift = 0
    /\ \A r \in DOMAIN statsData :
          LET row == statsData[r]
          IN  /\ \E i \in DOMAIN Pairs :
                    /\ PairKey(Pairs[i].abilityIdOne, Pairs[i].abilityIdTwo) = row.key
                    /\ row.picks = Pairs[i].numPicks
                    /\ row.pairWinRate = 100 * Pairs[i].winrate
              /\ \A e \in DOMAIN row.hiddenTriples :
                    LET triple == row.hiddenTriples[e]
                    IN  /\ triple.winrateShift = triple.winrate - row.pairWinRate
                        /\ triple.winrateShift = 0 => triple.winrate = row.pairWinRate
                        /\ \E i \in DOMAIN Triplets :
                              /\ Triplets[i].numPicks = triple.numPicks
                              /\ triple.winrate = 100 * Triplets[i].winrate

\* C4 witness: a row shows a hidden triple whose win rate is 60% for a pair
\* win rate of 50%: the shift is 10 points.
C4_Witness ==
    \E r \in DOMAIN statsData : \E e \in DOMAIN statsData[r].hiddenTriples :
        /\ statsData[r].pairWinRate = 100 * 50
        /\ statsData[r].hiddenTriples[e].winrate = 100 * 60
        /\ statsData[r].hiddenTriples[e].winrateShift = 100 * 10

---------------------------------------------------------------------------
(* JavaScript numbers that are not integers: exact rationals [n, d] in     *)
(* lowest terms with d > 0; a division by zero gives NaN or Infinity as    *)
(* the language does.                                                      *)

RECURSIVE GCD(_, _)
GCD(a, b) == IF b = 0 THEN a ELSE GCD(b, a % b)

NaN == [nan |-> TRUE]
Infinity == [inf |-> TRUE]

\* The number n / d, d > 0.
Rat(n, d) == LET g == GCD(Abs(n), d) IN [n |-> n \div g, d |-> d \div g]

Number(n) == Rat(n, 1)

IsFinite(x) == DOMAIN x = {"n", "d"}

Plus(x, y) == Rat(x.n * y.d + y.n * x.d, x.d * y.d)
Minus(x, y) == Rat(x.n * y.d - y.n * x.d, x.d * y.d)
Times(x, y) == Rat(x.n * y.n, x.d * y.d)

\* x / y: 0 / 0 is NaN, x / 0 is Infinity for x > 0.
Divide(x, y) ==
    IF y.n = 0 THEN (IF x.n = 0 THEN NaN ELSE Infinity)
    ELSE IF y.n < 0 THEN Rat(0 - x.n * y.d, 0 - x.d * y.n)
    ELSE Rat(x.n * y.d, x.d * y.n)

\* x >= y and x > y.
GreaterEq(x, y) == x.n * y.d >= y.n * x.d
Greater(x, y) == x.n * y.d > y.n * x.d

\* Math.round: the nearest integer, halves rounded up.
MathRound(x) == (2 * x.n + x.d) \div (2 * x.d)

---------------------------------------------------------------------------
(* DistributionPage: the rating distribution estimator. *)

RATING_BASELINE == 0
classWidth == 25

\* The bucket lower bounds and player counts of the /players response.
BandRanks == {1000 + classWidth * k : k \in 0..(MaxBands - 1)}
BandCounts == {0, 10, 20}
RatingBands == [rank : BandRanks, count : BandCounts]

\* The ratingBands arrays: at most MaxBands bands of different ranks, in any order.
RatingBandLists ==
    {l \in ListsUpTo(RatingBands, MaxBands) :
        \A i, j \in DOMAIN l : i # j => l[i].rank # l[j].rank}

\* The totals the API reports next to the bands: right for the worked
\* example, or off by one.
ReportedTotals == {40, 41}

PlayersResponses == [rankedPlayers : ReportedTotals, ratingBands : RatingBandLists]

\* .sort((a, b) => a.rating - b.rating), by insertion (the sort is stable).
RECURSIVE InsertByRating(_, _)
InsertByRating(sorted, e) ==
    IF sorted = << >> THEN << e >>
    ELSE IF e.rating < Head(sorted).rating THEN << e >> \o sorted
    ELSE << Head(sorted) >> \o InsertByRating(Tail(sorted), e)

RECURSIVE SortByRating(_)
SortByRating(seq) ==
    IF seq = << >> THEN << >>
    ELSE InsertByRating(SortByRating(SubSeq(seq, 1, Len(seq) - 1)), seq[Len(seq)])

\* distributionData without the sort.
distributionDataOf_unsorted(ratingBands) ==
    [i \in DOMAIN ratingBands |->
        [rating |-> ratingBands[i].rank + RATING_BASELINE,
         count |-> ratingBands[i].count]]

\* distributionData: the bands as {rating, count}, sorted by ascending rating.
distributionDataOf(ratingBands) ==
    SortByRating([i \in DOMAIN ratingBands |->
                    [rating |-> ratingBands[i].rank + RATING_BASELINE,
                     count |-> ratingBands[i].count]])

\* distributionData.reduce((sum, d) => sum + d.count, 0) over the first k buckets.
RECURSIVE countSum(_, _)
countSum(data, k) == IF k = 0 THEN 0 ELSE countSum(data, k - 1) + data[k].count

totalPlayersOf(data) == countSum(data, Len(data))

\* cumulativeData: the running count and the percentile of every bucket.
cumulativeDataOf(data, total) ==
    [i \in DOMAIN data |->
        [rating |-> data[i].rating,
         count |-> data[i].count,
         cumulative |-> countSum(data, i),
         percentile |-> IF total > 0
                        THEN Times(Divide(Number(countSum(data, i)), Number(total)), Number(100))
                        ELSE Number(0)]]

\* d3.min(distributionData, d => d.rating) ?? 1500
minRatingOf(data) ==
    IF data = << >> THEN 1500
    ELSE CHOOSE r \in {data[i].rating : i \in DOMAIN data} :
            \A i \in DOMAIN data : r <= data[i].rating

\* The loop of computeQuartile with a strict comparison.
RECURSIVE quartileScan_strict(_, _, _, _)
quartileScan_strict(cumulative, minRating, position, i) ==
    IF i > Len(cumulative)
    THEN (IF cumulative = << >> THEN Number(minRating)
          ELSE Number(cumulative[Len(cumulative)].rating))
    ELSE IF Greater(Number(cumulative[i].cumulative), position)
    THEN LET L == cumulative[i].rating
             f == cumulative[i].count
             CF_prev == IF i = 1 THEN 0 ELSE cumulative[i - 1].cumulative
         IN  IF f > 0
             THEN Plus(Number(L), Times(Divide(Minus(position, Number(CF_prev)), Number(f)),
                                        Number(classWidth)))
             ELSE Number(L)
    ELSE quartileScan_strict(cumulative, minRating, position, i + 1)

\* The loop of computeQuartile interpolating from the start of the data instead
\* of from the cumulative count before the bucket.
RECURSIVE quartileScan_noCumulativeBefore(_, _, _, _)
quartileScan_noCumulativeBefore(cumulative, minRating, position, i) ==
    IF i > Len(cumulative)
    THEN (IF cumulative = << >> THEN Number(minRating)
          ELSE Number(cumulative[Len(cumulative)].rating))
    ELSE IF GreaterEq(Number(cumulative[i].cumulative), position)
    THEN LET L == cumulative[i].rating
             f == cumulative[i].count
         IN  IF f > 0
             THEN Plus(Number(L), Times(Divide(position, Number(f)), Number(classWidth)))
             ELSE Number(L)
    ELSE quartileScan_noCumulativeBefore(cumulative, minRating, position, i + 1)

\* The loop of computeQuartile from bucket i on.
RECURSIVE quartileScan(_, _, _, _)
quartileScan(cumulative, minRating, position, i) ==
    IF i > Len(cumulative)
    THEN (IF cumulative = << >> THEN Number(minRating)
          ELSE Number(cumulative[Len(cumulative)].rating))
    ELSE IF GreaterEq(Number(cumulative[i].cumulative), position)
    THEN LET L == cumulative[i].rating
             f == cumulative[i].count
             CF_prev == IF i = 1 THEN 0 ELSE cumulative[i - 1].cumulative
         IN  IF f > 0
             THEN Plus(Number(L), Times(Divide(Minus(position, Number(CF_prev)), Number(f)),
                                     Number(classWidth)))
             ELSE Number(L)
    ELSE quartileScan(cumulative, minRating, position, i + 1)

computeQuartile(cumulative, minRating, position) ==
    quartileScan(cumulative, minRating, position, 1)

\* distributionData.reduce((sum, d) => sum + (d.rating + classWidth / 2) * d.count, 0)
RECURSIVE totalWeightedOf(_, _)
totalWeightedOf(data, k) ==
    IF k = 0 THEN Number(0)
    ELSE Plus(totalWeightedOf(data, k - 1),
              Times(Plus(Number(data[k].rating), Rat(classWidth, 2)), Number(data[k].count)))

chartMeanRating(data, total) == Divide(totalWeightedOf(data, Len(data)), Number(total))

\* The mean of the statistics card.
meanRatingOf_unrounded(data, total) ==
    IF Len(data) = 0 \/ total = 0 THEN Number(0)
    ELSE chartMeanRating(data, total)

meanRatingOf(data, total) ==
    IF Len(data) = 0 \/ total = 0 THEN Number(0)
    ELSE Number(MathRound(Divide(totalWeightedOf(data, Len(data)), Number(total))))

\* The chart effect: nothing is drawn for an empty distribution; the Q1,
\* mean and Q3 lines are drawn when there are players.
chartEffect(data, cumulative, total, drawn) ==
    IF Len(data) = 0 THEN drawn
    ELSE IF Len(cumulative) > 0 /\ total > 0
    THEN [q1 |-> computeQuartile(cumulative, minRatingOf(data), Divide(Number(total), Number(4))),
          mean |-> chartMeanRating(data, total),
          meanLabel |-> MathRound(chartMeanRating(data, total)),
          q3 |-> computeQuartile(cumulative, minRatingOf(data),
                                 Divide(Number(3 * total), Number(4)))]
    ELSE Null

\* A render of the page with the given query data.
DistributionRendered(response) ==
    LET ratingBands == IF IsNullish(response) THEN << >> ELSE response.v.ratingBands
        data == distributionDataOf(ratingBands)
        total == totalPlayersOf(data)
        cumulative == cumulativeDataOf(data, total)
    IN  /\ playersResponse' = response
        /\ distributionData' = data
        /\ totalPlayers' = total
        /\ cumulativeData' = cumulative
        /\ meanRating' = meanRatingOf(data, total)
        /\ chartLines' = chartEffect(data, cumulative, total, Null)

\* The other pages and helpers are not exercised with the distribution page.
InitDistribution ==
    /\ heroes = << >>
    /\ abilities = << >>
    /\ call = NoCall
    /\ LaterUnmounted
    /\ synergyCall = NoCall
    /\ PageUnmounted
    /\ AbilityDetailUnmounted
    /\ QueryUnobserved
    /\ playersResponse = Undefined
    /\ distributionData = << >>
    /\ totalPlayers = 0
    /\ cumulativeData = << >>
    /\ meanRating = Number(0)
    /\ chartLines = Null
    /\ quartileCall = NoCall

\* The /players query settles with data.
ReceivePlayers ==
    \E r \in PlayersResponses :
        /\ playersResponse = Undefined
        /\ DistributionRendered(Obj(r))
        /\ UNCHANGED <<quartileCall, curveVars, queryVars, refVars, laterVars, call, synergyCall, pageVars>>

\* The positions computeQuartile is called with: the Q1 and Q3 positions the
\* chart passes, and the ends of its contract (0, the total, past the total).
QuartilePositions ==
    {Number(0), Divide(Number(totalPlayers), Number(4)), Divide(Number(3 * totalPlayers), Number(4)),
     Number(totalPlayers), Number(totalPlayers + 1)}

CallComputeQuartile ==
    \E position \in QuartilePositions :
        /\ quartileCall = NoCall
        /\ cumulativeData # << >>
        /\ quartileCall' = [fn |-> "computeQuartile", position |-> position,
                            result |-> computeQuartile(cumulativeData,
                                                       minRatingOf(distributionData),
                                                       position)]
        /\ UNCHANGED <<playersResponse, distributionData, totalPlayers, cumulativeData,
                       meanRating, chartLines, curveVars, queryVars, refVars, laterVars, call,
                       synergyCall, pageVars>>

ReturnFromQuartile ==
    /\ quartileCall # NoCall
    /\ quartileCall' = NoCall
    /\ UNCHANGED <<playersResponse, distributionData, totalPlayers, cumulativeData,
                   meanRating, chartLines, curveVars, queryVars, refVars, laterVars, call,
                   synergyCall, pageVars>>

\* The cached /players data is dropped and the page renders without it.
PlayersDropped ==
    /\ playersResponse # Undefined
    /\ quartileCall = NoCall
    /\ DistributionRendered(Undefined)
    /\ UNCHANGED <<quartileCall, curveVars, queryVars, refVars, laterVars, call, synergyCall, pageVars>>

NextDistribution ==
    \/ ReceivePlayers
    \/ CallComputeQuartile
    \/ ReturnFromQuartile
    \/ PlayersDropped

SpecDistribution == InitDistribution /\ [][NextDistribution]_vars

---------------------------------------------------------------------------
(* Claims about the rating distribution (checked under SpecDistribution). *)

\* The buckets of the worked example.
ExampleBuckets ==
    << [rating |-> 1000, count |-> 10], [rating |-> 1025, count |-> 20],
       [rating |-> 1050, count |-> 10] >>

\* The bands received, none while the query is pending.
Bands == IF IsNullish(playersResponse) THEN << >> ELSE playersResponse.v.ratingBands

\* The sum of the counts of the bands with index in S.
RECURSIVE BandsSum(_, _)
BandsSum(bands, S) ==
    IF S = {} THEN 0
    ELSE LET i == CHOOSE j \in S : TRUE
         IN  bands[i].count + BandsSum(bands, S \ {i})

\* The players in buckets whose rating is below the given rating.
PlayersBelow(rating) == BandsSum(Bands, {i \in DOMAIN Bands : Bands[i].rank < rating})
PlayersUpTo(rating) == BandsSum(Bands, {i \in DOMAIN Bands : Bands[i].rank <= rating})

\* x = rating + ((p - before) / count) * 25, without dividing.
Interpolates(x, rating, p, before, count) ==
    x.n * p.d * count = x.d * (rating * count * p.d + 25 * (p.n - before * p.d))

\* C11: the quantile at position p is taken in the first bucket, in ascending
\* rating order, whose cumulative count is >= p, and is
\* bucketStart + ((p - cumulativeBefore) / bucketCount) x 25; the bucket's
\* start if its count is zero; the last bucket's start if no bucket has a
\* cumulative count >= p.  For the buckets [(1000,10),(1025,20),(1050,10)]
\* the Q1 position is 10 and Q1 = 1025.
C11_Quantile ==
    /\ quartileCall # NoCall =>
          LET p == quartileCall.position
              reached == {i \in DOMAIN distributionData :
                            PlayersUpTo(distributionData[i].rating) * p.d >= p.n}
              first == CHOOSE i \in reached : \A j \in reached : i <= j
              bucket == distributionData[first]
          IN  IF reached = {}
              THEN quartileCall.result = Number(distributionData[Len(distributionData)].rating)
              ELSE IF bucket.count = 0
              THEN quartileCall.result = Number(bucket.rating)
              ELSE Interpolates(quartileCall.result, bucket.rating, p,
                                PlayersBelow(bucket.rating), bucket.count)
    /\ distributionData = ExampleBuckets =>
          /\ Divide(Number(totalPlayers), Number(4)) = Number(10)
          /\ chartLines.q1 = Number(1025)

\* C11 witness: computeQuartile has returned 1025 for position 10 over the
\* buckets of the example.
C11_Witness ==
    /\ distributionData = ExampleBuckets
    /\ quartileCall # NoCall
    /\ quartileCall.position = Number(10)
    /\ quartileCall.result = Number(1025)
    /\ chartLines.q1 = Number(1025)

\* x is the weighted mean of the buckets received: the sum of
\* (bucketStart + 25/2) x bucketCount divided by the sum of the counts.
RECURSIVE WeightedSum2(_, _)
WeightedSum2(bands, S) ==
    IF S = {} THEN 0
    ELSE LET i == CHOOSE j \in S : TRUE
         IN  (2 * bands[i].rank + 25) * bands[i].count + WeightedSum2(bands, S \ {i})

IsWeightedMean(x) ==
    x.n * 2 * BandsSum(Bands, DOMAIN Bands) = x.d * WeightedSum2(Bands, DOMAIN Bands)

HasPlayers == BandsSum(Bands, DOMAIN Bands) > 0

\* C12 as stated: the weighted mean is the sum of (bucketStart + 25/2) x
\* bucketCount over the total player count, 1037.5 for the buckets of the
\* example, and the mean drawn on the chart and the mean of the statistics
\* card are the same value.
C12_Original ==
    HasPlayers =>
        /\ IsWeightedMean(chartLines.mean)
        /\ meanRating = chartLines.mean
        /\ distributionData = ExampleBuckets => meanRating = Rat(2075, 2)

\* C12: the mean drawn on the chart is the weighted mean, 1037.5 for the
\* buckets of the example; the mean of the statistics card is that value
\* rounded to the nearest integer (halves up), 1038 for the example, and is
\* the number the chart prints in the label of its mean line; without
\* players the card holds 0 and the chart draws no mean line.
C12_MeanRoundedOnCard ==
    /\ HasPlayers =>
          /\ IsWeightedMean(chartLines.mean)
          /\ meanRating.d = 1
          /\ (2 * meanRating.n - 1) * chartLines.mean.d <= 2 * chartLines.mean.n
          /\ 2 * chartLines.mean.n < (2 * meanRating.n + 1) * chartLines.mean.d
          /\ chartLines.meanLabel = meanRating.n
          /\ distributionData = ExampleBuckets =>
                chartLines.mean = Rat(2075, 2) /\ meanRating = Number(1038)
    /\ ~HasPlayers => meanRating = Number(0) /\ chartLines = Null

\* C12 witness: the buckets of the example are shown, the chart draws the
\* mean at 1037.5 and the card holds 1038.
C12_Witness ==
    /\ distributionData = ExampleBuckets
    /\ chartLines.mean = Rat(2075, 2)
    /\ meanRating = Number(1038)

\* C13: the total player count is the sum of the counts of the buckets
\* received, never the reported total; the cumulative count of a bucket is
\* the running sum of the counts in ascending rating order and its
\* percentile is 100 x cumulative / total, 0 when the total is 0; when the
\* total is positive the last bucket's cumulative count is the total and its
\* percentile is 100.
C13_TotalsAndPercentiles ==
    /\ totalPlayers = BandsSum(Bands, DOMAIN Bands)
    /\ Len(cumulativeData) = Len(Bands)
    /\ \A i \in DOMAIN cumulativeData :
          LET c == cumulativeData[i]
          IN  /\ \E b \in DOMAIN Bands :
                    Bands[b].rank = c.rating /\ Bands[b].count = c.count
              /\ i > 1 => cumulativeData[i - 1].rating < c.rating
              /\ c.cumulative = PlayersUpTo(c.rating)
              /\ c.cumulative = (IF i = 1 THEN 0 ELSE cumulativeData[i - 1].cumulative) + c.count
              /\ IF totalPlayers = 0 THEN c.percentile = Number(0)
                 ELSE c.percentile.n * totalPlayers = c.percentile.d * 100 * c.cumulative
    /\ (totalPlayers > 0) =>
          /\ cumulativeData[Len(cumulativeData)].cumulative = totalPlayers
          /\ cumulativeData[Len(cumulativeData)].percentile = Number(100)

\* C13 witness: the API reports 41 players next to bands that hold 40, sent
\* out of rating order; the page counts 40.
C13_Witness ==
    /\ ~IsNullish(playersResponse)
    /\ playersResponse.v.rankedPlayers = 41
    /\ Len(Bands) = 3
    /\ Bands[1].rank > Bands[2].rank
    /\ totalPlayers = 40
    /\ cumulativeData[3].percentile = Number(100)

---------------------------------------------------------------------------
(* AbilityDetailPage: the pick / win-rate curve builder. *)

\* The curve has one point for every pick position 1..40.
LastPick == 40

\* The pick positions of the rows received: the first two and the last one.
RowPicks == {1, 2, LastPick}

\* The statistics of a row: the row of the worked example, a second row with
\* observations, and a row without any observation.
RowStats ==
    { [total |-> 10, wins |-> 6, winrate |-> Rat(6, 10),
       wilsonLower |-> Rat(4, 10), wilsonUpper |-> Rat(8, 10)],
      [total |-> 30, wins |-> 12, winrate |-> Rat(4, 10),
       wilsonLower |-> Rat(1, 4), wilsonUpper |-> Rat(11, 20)],
      [total |-> 0, wins |-> 0, winrate |-> Number(0),
       wilsonLower |-> Number(0), wilsonUpper |-> Number(1)] }

PickStats ==
    {[pick |-> i, total |-> st.total, wins |-> st.wins, winrate |-> st.winrate,
      wilsonLower |-> st.wilsonLower, wilsonUpper |-> st.wilsonUpper] :
        i \in RowPicks, st \in RowStats}

\* The picks arrays: at most MaxRows rows, of different positions, in any order.
PicksLists ==
    {l \in ListsUpTo(PickStats, MaxRows) :
        \A i, j \in DOMAIN l : i # j => l[i].pick # l[j].pick}

\* picks.find(p => p.pick === i): the first such row, or undefined.
find(picks, i) ==
    LET hits == {k \in DOMAIN picks : picks[k].pick = i}
    IN  IF hits = {} THEN Undefined
        ELSE Obj(picks[CHOOSE k \in hits : \A j \in hits : k <= j])

\* picks.reduce((sum, p) => sum + p.total, 0) over the first k rows.
RECURSIVE totalSum(_, _)
totalSum(picks, k) == IF k = 0 THEN 0 ELSE totalSum(picks, k - 1) + picks[k].total

cumulativeWinrateOf(cumulativeWins, cumulativeTotal) ==
    IF cumulativeTotal > 0
    THEN Times(Divide(Number(cumulativeWins), Number(cumulativeTotal)), Number(100))
    ELSE Number(50)

cumulativePickRateOf_fraction(cumulativePicks, total) ==
    IF total > 0 THEN Divide(Number(cumulativePicks), Number(total)) ELSE Number(0)

cumulativePickRateOf(cumulativePicks, total) ==
    IF total > 0
    THEN Times(Divide(Number(cumulativePicks), Number(total)), Number(100))
    ELSE Number(0)

pickRateOf(row, total) ==
    IF Truthy(row) THEN Divide(Number(100 * row.v.total), Number(total)) ELSE Number(0)

winrateOf_zeroDefault(row) ==
    IF Truthy(row) THEN Times(row.v.winrate, Number(100)) ELSE Number(0)

winrateOf(row) ==
    IF Truthy(row) THEN Times(row.v.winrate, Number(100)) ELSE Number(50)

wilsonLowerOf_unscaled(row) ==
    IF Truthy(row) THEN row.v.wilsonLower ELSE Number(0)

wilsonLowerOf(row) ==
    IF Truthy(row) THEN Times(row.v.wilsonLower, Number(100)) ELSE Number(0)

wilsonUpperOf(row) ==
    IF Truthy(row) THEN Times(row.v.wilsonUpper, Number(100)) ELSE Number(100)

\* The point pushed for position i, the accumulators already updated.
chartPoint(i, row, total, cumulativeWins, cumulativeTotal, cumulativePicks) ==
    [pick |-> i,
     pickRate |-> pickRateOf(row, total),
     cumulativePickRate |-> cumulativePickRateOf(cumulativePicks, total),
     winrate |-> winrateOf(row),
     cumulativeWinrate |-> cumulativeWinrateOf(cumulativeWins, cumulativeTotal),
     wilsonLower |-> wilsonLowerOf(row),
     wilsonUpper |-> wilsonUpperOf(row),
     count |-> IF Truthy(row) THEN row.v.total ELSE 0]

\* for (let i = 1; i <= 40; i++) { ... data.push(...) }, from position i on.
RECURSIVE chartLoop(_, _, _, _, _, _, _)
chartLoop(picks, total, i, cumulativeWins, cumulativeTotal, cumulativePicks, data) ==
    IF i > LastPick THEN data
    ELSE LET row == find(picks, i)
             wins == cumulativeWins + (IF Truthy(row) THEN row.v.wins ELSE 0)
             tot == cumulativeTotal + (IF Truthy(row) THEN row.v.total ELSE 0)
             pks == cumulativePicks + (IF Truthy(row) THEN row.v.total ELSE 0)
         IN  chartLoop(picks, total, i + 1, wins, tot, pks,
                       Append(data, chartPoint(i, row, total, wins, tot, pks)))

\* chartData: null without picks, else the points of positions 1..40.
chartDataOf(response) ==
    IF IsNullish(response) THEN Null
    ELSE LET picks == response.v.picks
         IN  chartLoop(picks, totalSum(picks, Len(picks)), 1, 0, 0, 0, << >>)

\* The chart effect: nothing is redrawn without chart data; else the bars
\* and the line show the fields the display mode selects.
drawChart(data, type, drawn) ==
    IF data = Null THEN drawn
    ELSE [bars |-> [i \in DOMAIN data |->
                      IF type = "cumulative" THEN data[i].cumulativePickRate
                      ELSE data[i].pickRate],
          line |-> [i \in DOMAIN data |->
                      IF type = "cumulative" THEN data[i].cumulativeWinrate
                      ELSE data[i].winrate]]

InitCurve ==
    /\ heroes = << >>
    /\ abilities = << >>
    /\ call = NoCall
    /\ LaterUnmounted
    /\ synergyCall = NoCall
    /\ PageUnmounted
    /\ DistributionUnmounted
    /\ QueryUnobserved
    /\ apiResponse = Undefined
    /\ winrateType = "normal"
    /\ chartData = Null
    /\ drawnSeries = Undefined

\* The /abilities/:id query settles with data.
ReceiveAbilityDetail ==
    \E picks \in PicksLists :
        /\ apiResponse = Undefined
        /\ apiResponse' = Obj([picks |-> picks])
        /\ chartData' = chartDataOf(apiResponse')
        /\ drawnSeries' = drawChart(chartData', winrateType, drawnSeries)
        /\ UNCHANGED <<winrateType, distVars, queryVars, refVars, laterVars, call, synergyCall, pageVars>>

\* A toggle that rebuilds the series for the selected mode only.
setWinrateType_singleSeries(type) ==
    /\ winrateType' = type
    /\ chartData' = IF chartData = Null THEN Null
                    ELSE [i \in DOMAIN chartData |->
                            IF type = "cumulative"
                            THEN [chartData[i] EXCEPT !.pickRate = chartData[i].cumulativePickRate]
                            ELSE chartData[i]]
    /\ drawnSeries' = drawChart(chartData', type, drawnSeries)
    /\ UNCHANGED <<apiResponse, distVars, queryVars, refVars, laterVars, call, synergyCall, pageVars>>

\* A click on one of the two buttons of the type selector.
setWinrateType(type) ==
    /\ winrateType' = type
    /\ drawnSeries' = drawChart(chartData, type, drawnSeries)
    /\ UNCHANGED <<apiResponse, chartData, distVars, queryVars, refVars, laterVars, call,
                   synergyCall, pageVars>>

WinrateTypes == {"normal", "cumulative"}

ClickTypeButton == \E type \in WinrateTypes : setWinrateType(type)

NextCurve ==
    \/ ReceiveAbilityDetail
    \/ ClickTypeButton

SpecCurve == InitCurve /\ [][NextCurve]_vars

---------------------------------------------------------------------------
(* Claims about the curve builder (checked under SpecCurve). *)

\* The rows received, none while the query is pending.
Rows == IF IsNullish(apiResponse) THEN << >> ELSE apiResponse.v.picks

HasRow(i) == \E k \in DOMAIN Rows : Rows[k].pick = i
RowOf(i) == Rows[CHOOSE k \in DOMAIN Rows : Rows[k].pick = i]

\* The sums of the totals and of the wins of the rows with index in S.
RECURSIVE RowsTotal(_)
RowsTotal(S) ==
    IF S = {} THEN 0
    ELSE LET k == CHOOSE j \in S : TRUE IN Rows[k].total + RowsTotal(S \ {k})

RECURSIVE RowsWins(_)
RowsWins(S) ==
    IF S = {} THEN 0
    ELSE LET k == CHOOSE j \in S : TRUE IN Rows[k].wins + RowsWins(S \ {k})

GrandTotal == RowsTotal(DOMAIN Rows)
TotalUpTo(i) == RowsTotal({k \in DOMAIN Rows : Rows[k].pick <= i})
WinsUpTo(i) == RowsWins({k \in DOMAIN Rows : Rows[k].pick <= i})

\* x is the number 100 * a / b, b > 0.
IsPercentOf(x, a, b) == IsFinite(x) /\ x.n * b = x.d * 100 * a

\* x is 100 times the number y.
IsTimes100(x, y) == IsFinite(x) /\ x.n * y.d = x.d * 100 * y.n

\* C14: the curve has exactly 40 points, one per pick position 1..40 in
\* ascending order, whatever rows are present; the per-position pick rate is
\* 100 x total / grandTotal when a row exists for the position and 0 when
\* none does, a number for every input, also when the grand total is 0.
C14_DenseSeries ==
    chartData # Null =>
        /\ Len(chartData) = 40
        /\ \A i \in 1..40 :
              /\ chartData[i].pick = i
              /\ IsFinite(chartData[i].pickRate)
              /\ HasRow(i) /\ GrandTotal > 0 =>
                    IsPercentOf(chartData[i].pickRate, RowOf(i).total, GrandTotal)
              /\ ~HasRow(i) => chartData[i].pickRate = Number(0)

\* C15: the cumulative pick rate at position i is the sum of the totals of
\* the rows up to position i over the grand total, as a percentage; it is
\* non-decreasing in i, and is 100% at position 40 whenever there is at
\* least one observation.
C15_CumulativePickRate ==
    chartData # Null =>
        /\ \A i \in 1..40 :
              /\ IsFinite(chartData[i].cumulativePickRate)
              /\ GrandTotal > 0 =>
                    IsPercentOf(chartData[i].cumulativePickRate, TotalUpTo(i), GrandTotal)
              /\ i > 1 => GreaterEq(chartData[i].cumulativePickRate,
                                    chartData[i - 1].cumulativePickRate)
        /\ GrandTotal > 0 => chartData[40].cumulativePickRate = Number(100)

\* C15 witness: rows at positions 2 and 40 only: the cumulative pick rate is
\* 0% at position 1, 25% at position 2 and 100% at position 40.
C15_Witness ==
    /\ chartData # Null
    /\ chartData[1].cumulativePickRate = Number(0)
    /\ chartData[2].cumulativePickRate = Number(25)
    /\ chartData[39].cumulativePickRate = Number(25)
    /\ chartData[40].cumulativePickRate = Number(100)

\* C16: the per-position win rate is 50 at a position without a row and the
\* row's win rate as a percentage otherwise; the cumulative win rate at
\* position i is 100 x (wins up to i) / (totals up to i), and 50 wherever the
\* summed total is still zero.
C16_WinRates ==
    chartData # Null =>
        \A i \in 1..40 :
            /\ ~HasRow(i) => chartData[i].winrate = Number(50)
            /\ HasRow(i) => IsTimes100(chartData[i].winrate, RowOf(i).winrate)
            /\ TotalUpTo(i) = 0 => chartData[i].cumulativeWinrate = Number(50)
            /\ TotalUpTo(i) > 0 =>
                  IsPercentOf(chartData[i].cumulativeWinrate, WinsUpTo(i), TotalUpTo(i))

\* C16 witness: no row at position 1 (win rate 50, cumulative 50), the row
\* of the example at position 2 (60%), and 18 wins out of 40 at position 40.
C16_Witness ==
    /\ chartData # Null
    /\ ~HasRow(1) /\ HasRow(2)
    /\ chartData[1].winrate = Number(50)
    /\ chartData[1].cumulativeWinrate = Number(50)
    /\ chartData[2].winrate = Number(60)
    /\ chartData[40].cumulativeWinrate = Number(45)

\* C17 as stated: for a position that has a row the Wilson bounds of the
\* output are the row's bounds, unchanged; for a position without a row they
\* are 0 and 100.
C17_Original ==
    chartData # Null =>
        \A i \in 1..40 :
            /\ HasRow(i) =>
                  /\ chartData[i].wilsonLower = RowOf(i).wilsonLower
                  /\ chartData[i].wilsonUpper = RowOf(i).wilsonUpper
            /\ ~HasRow(i) =>
                  /\ chartData[i].wilsonLower = Number(0)
                  /\ chartData[i].wilsonUpper = Number(100)

\* C17: for a position that has a row the Wilson bounds of the output are
\* the row's bounds (fractions) multiplied by 100, that is as percentages,
\* and otherwise unchanged; for a position without a row they are 0 and 100.
C17_WilsonAsPercentages ==
    chartData # Null =>
        \A i \in 1..40 :
            /\ HasRow(i) =>
                  /\ IsTimes100(chartData[i].wilsonLower, RowOf(i).wilsonLower)
                  /\ IsTimes100(chartData[i].wilsonUpper, RowOf(i).wilsonUpper)
            /\ ~HasRow(i) =>
                  /\ chartData[i].wilsonLower = Number(0)
                  /\ chartData[i].wilsonUpper = Number(100)

\* C17 witness: the row of the example (bounds 0.4 and 0.8) at position 1
\* gives 40 and 80, and position 2 without a row gives 0 and 100.
C17_Witness ==
    /\ chartData # Null
    /\ HasRow(1) /\ ~HasRow(2)
    /\ RowOf(1).wilsonLower = Rat(4, 10)
    /\ chartData[1].wilsonLower = Number(40)
    /\ chartData[1].wilsonUpper = Number(80)
    /\ chartData[2].wilsonLower = Number(0)
    /\ chartData[2].wilsonUpper = Number(100)

\* What is drawn is the series the display mode selects from the chart data.
DrawnFrom(data, type, drawn) ==
    data # Null =>
        \A i \in 1..40 :
            /\ drawn.bars[i] = (IF type = "cumulative" THEN data[i].cumulativePickRate
                                ELSE data[i].pickRate)
            /\ drawn.line[i] = (IF type = "cumulative" THEN data[i].cumulativeWinrate
                                ELSE data[i].winrate)

\* C18: switching the display mode between per-pick and cumulative, any
\* number of times, leaves the 40-point series unchanged: both series are in
\* the same data and the toggle only selects which fields are drawn.
C18_ToggleKeepsSeries ==
    [][ /\ winrateType' # winrateType => chartData' = chartData
        /\ DrawnFrom(chartData', winrateType', drawnSeries') ]_vars

\* C18 witness: the page has been switched to cumulative with a curve on
\* display: the bars show the cumulative pick rates of the same data.
C18_Witness ==
    /\ winrateType = "cumulative"
    /\ chartData # Null
    /\ GrandTotal > 0
    /\ ~HasRow(40)
    /\ chartData[40].pickRate = Number(0)
    /\ drawnSeries.bars[40] = Number(100)

---------------------------------------------------------------------------
(* The API client and the retry policy of the queries. *)

\* A numeric conversion that found no number.
NotANumber == [t |-> "NaN"]

DigitValue ==
    ("0" :> 0) @@ ("1" :> 1) @@ ("2" :> 2) @@ ("3" :> 3) @@ ("4" :> 4) @@
    ("5" :> 5) @@ ("6" :> 6) @@ ("7" :> 7) @@ ("8" :> 8) @@ ("9" :> 9)

\* The value of the leading digits of a string (a sequence of characters).
RECURSIVE leadingDigits(_, _)
leadingDigits(chars, acc) ==
    IF chars = << >> \/ Head(chars) \notin DOMAIN DigitValue THEN acc
    ELSE leadingDigits(Tail(chars), 10 * acc + DigitValue[Head(chars)])

\* parseInt(s, 10) of a string without sign or leading blanks.
parseInt(chars) ==
    IF chars = << >> \/ Head(chars) \notin DOMAIN DigitValue THEN NotANumber
    ELSE Num(leadingDigits(chars, 0))

\* The statuses of the responses that are not ok.
FailureStatuses == {503, 500, 404}

\* The Retry-After header of a response: absent (headers.get gives null), a
\* number of seconds, or an HTTP date.
\* A header value is a string, held as its sequence of characters.
RetryAfterHeaders ==
    {Null, Str(<< "0" >>), Str(<< "2" >>), Str(<< "1", "2", "0" >>), Str(<< "W", "e", "d" >>)}

\* The ways a fetch fails: a response that is not ok, or no response at all.
FailedFetches ==
    [kind : {"response"}, status : FailureStatuses, retryAfter : RetryAfterHeaders]
        \cup {[kind |-> "network"]}

\* What apiFetch throws: an ApiError for a response that is not ok, the
\* error of fetch itself otherwise.
apiFetchError(failure) ==
    IF failure.kind = "response"
    THEN [name |-> "ApiError", status |-> failure.status,
          retryAfter |-> IF IsNullish(failure.retryAfter) \/ failure.retryAfter.v = << >>
                         THEN Null
                         ELSE parseInt(failure.retryAfter.v)]
    ELSE [name |-> "TypeError"]

IsApiError(error) == error.name = "ApiError"

retryOn503(failureCount, error) ==
    IF IsApiError(error) /\ error.status = 503 THEN failureCount < 10
    ELSE failureCount < 3

\* 2 ** n
RECURSIVE Pow2(_)
Pow2(n) == IF n = 0 THEN 1 ELSE 2 * Pow2(n - 1)

Min(a, b) == IF a < b THEN a ELSE b

retryDelay(failureCount, error) ==
    IF IsApiError(error) /\ Truthy(error.retryAfter) THEN error.retryAfter.v * 1000
    ELSE Min(1000 * Pow2(failureCount), 30000)

\* Who issues the request: a usePersistedQuery query, with the retry policy
\* above, or a look-up of searchPlayers, which awaits apiFetch itself.
Requesters == {"usePersistedQuery", "searchPlayers"}

InitQuery ==
    /\ heroes = << >>
    /\ abilities = << >>
    /\ call = NoCall
    /\ LaterUnmounted
    /\ synergyCall = NoCall
    /\ PageUnmounted
    /\ DistributionUnmounted
    /\ AbilityDetailUnmounted
    /\ query \in {[via |-> r, status |-> "fetching", failureCount |-> 0,
                   failure |-> Null, error |-> Null, delay |-> Null] : r \in Requesters}

\* The response is ok: the request settles in success.
FetchSucceeds ==
    /\ query.status = "fetching"
    /\ query' = [query EXCEPT !.status = "success", !.delay = Null]
    /\ UNCHANGED <<distVars, curveVars, refVars, laterVars, call, synergyCall, pageVars>>

\* A fetch of a query fails: the query client asks retryDelay and retryOn503
\* with the failures counted so far, and either schedules a retry or settles
\* the query in error.
QueryFetchFails ==
    \E failure \in FailedFetches :
        LET error == apiFetchError(failure)
            delay == retryDelay(query.failureCount, error)
            shouldRetry == retryOn503(query.failureCount, error)
        IN  /\ query.via = "usePersistedQuery"
            /\ query.status = "fetching"
            /\ query' = IF shouldRetry
                        THEN [query EXCEPT !.status = "waiting",
                                           !.failureCount = @ + 1,
                                           !.failure = failure,
                                           !.error = error,
                                           !.delay = delay]
                        ELSE [query EXCEPT !.status = "error",
                                           !.failure = failure,
                                           !.error = error,
                                           !.delay = Null]
            /\ UNCHANGED <<distVars, curveVars, refVars, laterVars, call, synergyCall, pageVars>>

\* The delay has elapsed: the query fetches again.
RetryFires ==
    /\ query.status = "waiting"
    /\ query' = [query EXCEPT !.status = "fetching", !.delay = Null]
    /\ UNCHANGED <<distVars, curveVars, refVars, laterVars, call, synergyCall, pageVars>>

\* A look-up of searchPlayers fails: the catch records the error.
SearchFetchFails ==
    \E failure \in FailedFetches :
        /\ query.via = "searchPlayers"
        /\ query.status = "fetching"
        /\ query' = [query EXCEPT !.status = "error",
                                  !.failure = failure,
                                  !.error = apiFetchError(failure)]
        /\ UNCHANGED <<distVars, curveVars, refVars, laterVars, call, synergyCall, pageVars>>

NextQuery ==
    \/ FetchSucceeds
    \/ QueryFetchFails
    \/ RetryFires
    \/ SearchFetchFails

SpecQuery == InitQuery /\ [][NextQuery]_vars

---------------------------------------------------------------------------
(* Claims about the retries (checked under SpecQuery). *)

Failed503 == query.failure # Null /\ query.failure.kind = "response"
                /\ query.failure.status = 503

\* C19: every request that fails with a 503 is retried automatically, and
\* retrying is bounded: at most 10 retries when the failures are 503, at most
\* 3 for any other failure, after which the request settles in an error
\* state; a request that succeeds on some attempt settles in success.
C19_RetriedAndBounded ==
    /\ query.failureCount <= 10
    /\ (query.status = "waiting" /\ ~Failed503) => query.failureCount <= 3
    /\ (query.status = "error" /\ Failed503) => query.failureCount = 10
    /\ query.status = "success" => query.delay = Null

\* The seconds a Retry-After header of digits asks for.
IsSeconds(header) ==
    header # Null /\ \A i \in DOMAIN header.v : header.v[i] \in DOMAIN DigitValue

RECURSIVE SecondsOf(_)
SecondsOf(header) ==
    IF header = << >> THEN 0
    ELSE 10 * SecondsOf(SubSeq(header, 1, Len(header) - 1)) + DigitValue[header[Len(header)]]

\* 1000 x 2^n ms capped at 30000 ms.
Backoff(n) == IF n >= 5 THEN 30000 ELSE 1000 * Pow2(n)

\* C20: the delay before a retry is the server hint when the failed response
\* carried a Retry-After header in seconds (that many seconds), for every
\* header value including 0; without a hint, and for HTTP errors other than
\* 503, it is the exponential backoff 1000 x 2^failureCount ms capped at
\* 30000 ms.
C20_RetryDelay ==
    query.status = "waiting" =>
        IF Failed503 /\ IsSeconds(query.failure.retryAfter)
        THEN query.delay = 1000 * SecondsOf(query.failure.retryAfter.v)
        ELSE (query.failure.kind = "network" \/ query.failure.retryAfter = Null
                \/ query.failure.status # 503)
                => query.delay = Backoff(query.failureCount - 1)

---------------------------------------------------------------------------
(* Further claims about the hidden-triple map (checked under Spec). *)

\* The keys of the pairs of the pair statistics.
PairStatKeys == {PairKey(Pairs[i].abilityIdOne, Pairs[i].abilityIdTwo) : i \in DOMAIN Pairs}

\* C28: a triplet contributes a hidden-triple entry only to implied pairs
\* that are present in the pair statistics: an implied pair without a pair
\* pick count gets no entry (it is skipped, not read as pick count 0), the
\* map is empty whenever the pair statistics or the triplet statistics are
\* missing or empty, and every key of the map is the key of some pair of the
\* pair statistics.
C28_EntriesOnlyForKnownPairs ==
    /\ \A k \in DOMAIN hiddenTriplesMap :
          /\ k \in PairStatKeys
          /\ hiddenTriplesMap[k] # << >>
    /\ (Pairs = << >> \/ Triplets = << >>) => DOMAIN hiddenTriplesMap = {}
    /\ \A i \in DOMAIN Triplets : \A ip \in Implied(Triplets[i]) :
          (PairKey(ip[1], ip[2]) \notin PairStatKeys)
              => PairKey(ip[1], ip[2]) \notin DOMAIN hiddenTriplesMap

\* C28 witness: a triplet has put an entry under a pair of the statistics,
\* and another of its implied pairs, in ascending id order, is not in the
\* statistics and has no entry.
C28_Witness ==
    /\ DOMAIN hiddenTriplesMap # {}
    /\ \E i \in DOMAIN Triplets : \E ip \in Implied(Triplets[i]) :
          /\ ip[1] < ip[2]
          /\ PairKey(ip[1], ip[2]) \notin PairStatKeys
          /\ PairKey(ip[1], ip[2]) \notin DOMAIN hiddenTriplesMap

---------------------------------------------------------------------------
(* The quartiles of the distribution page as functions of the position. *)

\* The positions at which the quantile is probed: every fifth player.
ProbePositions == {Number(5 * k) : k \in 1..(totalPlayers \div 5)}

\* The buckets received, in the order given by the permutation f of their indexes.
Reordered(f) == [i \in DOMAIN Bands |-> Bands[f[i]]]

\* The quantile at position p computed from the buckets received in another order.
QuantileOf(bands, p) ==
    LET data == distributionDataOf(bands)
        total == totalPlayersOf(data)
    IN  computeQuartile(cumulativeDataOf(data, total), minRatingOf(data), p)

InRange(p) == Greater(p, Number(0)) /\ GreaterEq(Number(totalPlayers), p)

\* C29: for a positive total and a position p with 0 < p <= total, the bucket
\* computeQuartile selects has a positive count and the result lies between
\* that bucket's start and its start plus 25; the result does not decrease
\* when p grows, so Q1 <= Q3; and the result does not depend on the order in
\* which the buckets were received.
C29_QuantileWithinBucketAndMonotone ==
    /\ (quartileCall # NoCall /\ totalPlayers > 0 /\ InRange(quartileCall.position)) =>
          LET p == quartileCall.position
              x == quartileCall.result
              reached == {i \in DOMAIN distributionData :
                            PlayersUpTo(distributionData[i].rating) * p.d >= p.n}
              first == CHOOSE i \in reached : \A j \in reached : i <= j
              bucket == distributionData[first]
          IN  /\ reached # {}
              /\ bucket.count > 0
              /\ GreaterEq(x, Number(bucket.rating))
              /\ GreaterEq(Number(bucket.rating + 25), x)
              /\ \A q \in ProbePositions :
                    LET y == computeQuartile(cumulativeData, minRatingOf(distributionData), q)
                    IN  /\ GreaterEq(p, q) => GreaterEq(x, y)
                        /\ GreaterEq(q, p) => GreaterEq(y, x)
              /\ \A f \in Permutations(DOMAIN Bands) : QuantileOf(Reordered(f), p) = x
    /\ (chartLines # Null /\ totalPlayers > 0) => GreaterEq(chartLines.q3, chartLines.q1)

\* C29 witness: over buckets received out of rating order, the first of them
\* empty, computeQuartile has returned a value strictly inside a bucket, below
\* the third quartile drawn on the chart.
C29_Witness ==
    /\ quartileCall # NoCall
    /\ totalPlayers > 0
    /\ InRange(quartileCall.position)
    /\ Len(Bands) >= 2
    /\ Bands[1].rank > Bands[2].rank
    /\ \E i \in DOMAIN Bands : Bands[i].count = 0
    /\ \E i \in DOMAIN distributionData :
          /\ Greater(quartileCall.result, Number(distributionData[i].rating))
          /\ Greater(Number(distributionData[i].rating + 25), quartileCall.result)
    /\ Greater(chartLines.q3, quartileCall.result)

---------------------------------------------------------------------------
(* usePatchSelection and the patch-dependent queries of AbilityPairsPage. *)

\* The patch names of the model; the API names patches by non-empty strings.
PatchNames == {"7.38", "7.39", "7.40"}

\* The patch lists /heroes/historic may return, duplicates included.
PatchLists == ListsUpTo(PatchNames, MaxPatches)

\* The values of the patch parameter of the URL: absent, empty, a listed
\* patch or any other text.
UrlPatches == {Null, Str("")} \cup {Str(n) : n \in PatchNames \cup {"0.00"}}

\* array.includes(x)
includes(array, x) == \E i \in DOMAIN array : array[i] = x

\* array.indexOf(x), counted from 0
indexOf(array, x) ==
    IF includes(array, x)
    THEN (CHOOSE i \in DOMAIN array : array[i] = x /\ \A j \in 1..(i - 1) : array[j] # x) - 1
    ELSE -1

\* array[index], counted from 0, boxed as a string
At(array, index) ==
    IF index + 1 \in DOMAIN array THEN Str(array[index + 1]) ELSE Undefined

\* [...new Set(list)]: the distinct elements in the order of their first insertion.
RECURSIVE Dedupe(_)
Dedupe(list) ==
    IF list = << >> THEN << >>
    ELSE LET front == Dedupe(SubSeq(list, 1, Len(list) - 1))
             last == list[Len(list)]
         IN  IF includes(front, last) THEN front ELSE Append(front, last)

\* usePatchSelection, the values it returns for the given query data and URL.
usePatchSelection(historic, url) ==
    LET list == IF IsNullish(historic) THEN << >> ELSE historic.v
        deduped == Dedupe(list)
        current == IF Truthy(url) /\ includes(deduped, url.v)
                   THEN url
                   ELSE Coalesce(At(deduped, Len(deduped) - 1), Null)
        prevPatchIndex == IF Truthy(current) THEN indexOf(deduped, current.v) - 1 ELSE -1
    IN  [patches |-> deduped,
         currentPatch |-> current,
         prevPatch |-> IF prevPatchIndex >= 0 THEN At(deduped, prevPatchIndex) ELSE Null]

\* usePersistedQuery that fetches whatever the enabled option says.
usePersistedQuery_ignoresEnabled(path, params, enabled, current) ==
    {[path |-> path, patch |-> params, current |-> current]}

\* usePersistedQuery: the request the query issues, if it is enabled.  The
\* request is recorded with the patch that was selected when it was issued.
usePersistedQuery(path, params, enabled, current) ==
    IF enabled /\ path # Null
    THEN {[path |-> path, patch |-> params, current |-> current]}
    ELSE {}

\* The three queries of AbilityPairsPage.
PatchQueryPaths == {Str("/ability-pairs"), Str("/abilities"), Str("/ability-triplets")}

AbilityPairsPage_queries(current) ==
    UNION {usePersistedQuery(path,
                             IF Truthy(current) THEN current ELSE Undefined,
                             Truthy(current),
                             current) : path \in PatchQueryPaths}

\* A render of the page with the given patch list data and URL.
PatchRendered(historic, url) ==
    LET selection == usePatchSelection(historic, url)
    IN  /\ historicData' = historic
        /\ urlPatch' = url
        /\ patches' = selection.patches
        /\ currentPatch' = selection.currentPatch
        /\ prevPatch' = selection.prevPatch
        /\ issued' = issued \cup AbilityPairsPage_queries(selection.currentPatch)

outsidePatchVars == <<earlierVars, tableVars, sectionVars, searchVars>>

\* The page is opened at some URL; the patch list has not arrived.
InitPatch ==
    /\ EarlierUnmounted
    /\ TableUnmounted
    /\ SectionsUnmounted
    /\ SearchUnmounted
    /\ historicData = Undefined
    /\ urlPatch \in UrlPatches
    /\ patches = << >>
    /\ currentPatch = Null
    /\ prevPatch = Null
    /\ issued = {}

\* The /heroes/historic query settles with data.
ReceiveHistoric ==
    \E list \in PatchLists :
        /\ historicData = Undefined
        /\ PatchRendered(Obj(list), urlPatch)
        /\ UNCHANGED outsidePatchVars

\* setPatch: the selector offers the listed patches, and the empty option
\* while there is none.
setPatch ==
    \E patch \in {patches[i] : i \in DOMAIN patches} \cup {""} :
        /\ PatchRendered(historicData, IF patch # "" THEN Str(patch) ELSE Null)
        /\ UNCHANGED outsidePatchVars

\* The user opens a link or edits the address bar.
NavigateToUrl ==
    \E url \in UrlPatches :
        /\ PatchRendered(historicData, url)
        /\ UNCHANGED outsidePatchVars

NextPatch ==
    \/ ReceiveHistoric
    \/ setPatch
    \/ NavigateToUrl

SpecPatch == InitPatch /\ [][NextPatch]_vars

\* The patches received, without duplicates, and the place where each first occurs.
ReceivedList == IF IsNullish(historicData) THEN << >> ELSE historicData.v
Received == {ReceivedList[i] : i \in DOMAIN ReceivedList}
FirstAt(name) == CHOOSE i \in DOMAIN ReceivedList :
                    ReceivedList[i] = name /\ \A j \in 1..(i - 1) : ReceivedList[j] # name
Latest == CHOOSE n \in Received : \A m \in Received : FirstAt(m) <= FirstAt(n)
Before(name) == {m \in Received : FirstAt(m) < FirstAt(name)}

\* C27: currentPatch is null only while the de-duplicated patch list is empty,
\* and otherwise is the patch of the URL when that is in the list and the
\* last patch of the list when not; prevPatch is the element of the list just
\* before currentPatch, null when there is none; and no patch-dependent
\* query is issued while currentPatch is null.
C27_PatchSelection ==
    /\ {patches[i] : i \in DOMAIN patches} = Received
    /\ Len(patches) = Cardinality(Received)
    /\ IF Received = {} THEN currentPatch = Null
       ELSE /\ currentPatch.t = "string"
            /\ currentPatch.v \in Received
            /\ currentPatch = (IF urlPatch.t = "string" /\ urlPatch.v \in Received
                               THEN urlPatch ELSE Str(Latest))
    /\ IF currentPatch = Null \/ Before(currentPatch.v) = {}
       THEN prevPatch = Null
       ELSE /\ prevPatch.t = "string"
            /\ prevPatch.v \in Before(currentPatch.v)
            /\ \A m \in Before(currentPatch.v) : FirstAt(m) <= FirstAt(prevPatch.v)
    /\ \A r \in issued : r.current # Null /\ r.patch = r.current

\* C27 witness: the list arrived with a duplicate, the URL names a listed
\* patch that is not the last one, it is selected, the one before it is the
\* previous patch, and the three queries were issued for it.
C27_Witness ==
    /\ Len(ReceivedList) > Cardinality(Received)
    /\ urlPatch.t = "string"
    /\ currentPatch = urlPatch
    /\ currentPatch # Str(Latest)
    /\ prevPatch.t = "string"
    /\ \A path \in PatchQueryPaths :
          [path |-> path, patch |-> currentPatch, current |-> currentPatch] \in issued

---------------------------------------------------------------------------
(* AbilityHeroAttributesPage: the abilities-by-hero-type table. *)

\* Texts are sequences of characters over a small alphabet.
LowerCaseOf ==
    ("A" :> "a") @@ ("B" :> "b") @@ ("C" :> "c") @@ ("D" :> "d") @@
    ("a" :> "a") @@ ("b" :> "b") @@ ("c" :> "c") @@ ("d" :> "d") @@ (" " :> " ")

\* The place of a letter in the alphabet, whatever its case.
LetterRank == ("a" :> 1) @@ ("b" :> 2) @@ ("c" :> 3) @@ ("d" :> 4) @@ (" " :> 0)

\* s.toLowerCase()
toLowerCase(chars) == [i \in DOMAIN chars |-> LowerCaseOf[chars[i]]]

\* s.trim()
RECURSIVE trimStart(_)
trimStart(chars) ==
    IF chars # << >> /\ Head(chars) = " " THEN trimStart(Tail(chars)) ELSE chars

RECURSIVE trimEnd(_)
trimEnd(chars) ==
    IF chars # << >> /\ chars[Len(chars)] = " "
    THEN trimEnd(SubSeq(chars, 1, Len(chars) - 1))
    ELSE chars

trim(chars) == trimEnd(trimStart(chars))

\* text.includes(part)
includesText(text, part) ==
    \E i \in 1..(Len(text) - Len(part) + 1) : SubSeq(text, i, i + Len(part) - 1) = part

\* a.localeCompare(b): by letters first, and for the same letters the
\* lower-case one first.
RECURSIVE compareBy(_, _, _)
compareBy(a, b, rank) ==
    IF a = << >> /\ b = << >> THEN 0
    ELSE IF a = << >> THEN -1
    ELSE IF b = << >> THEN 1
    ELSE IF rank[Head(a)] < rank[Head(b)] THEN -1
    ELSE IF rank[Head(a)] > rank[Head(b)] THEN 1
    ELSE compareBy(Tail(a), Tail(b), rank)

LetterRankOf == [c \in DOMAIN LowerCaseOf |-> LetterRank[LowerCaseOf[c]]]
CaseRankOf == [c \in DOMAIN LowerCaseOf |-> IF LowerCaseOf[c] = c THEN 0 ELSE 1]

localeCompare(a, b) ==
    IF compareBy(a, b, LetterRankOf) # 0
    THEN compareBy(a, b, LetterRankOf)
    ELSE compareBy(a, b, CaseRankOf)

\* The catalog of the page: three abilities, named "Ba", "ab" and "Cd".
TableAbilityRecord(name, short) ==
    [englishName |-> Str(name), shortName |-> Str(short), isUltimate |-> Null,
     ownerHeroId |-> Null]

TableAbilityCatalog ==
    (1 :> TableAbilityRecord(<<"B", "a">>, <<"b", "a">>)) @@
    (2 :> TableAbilityRecord(<<"a", "b">>, <<"a", "b">>)) @@
    (3 :> TableAbilityRecord(<<"C", "d">>, <<"c", "d">>))

\* AbilityCategoryStats
CategoryStats(numPicks, avgPickPosition, winrate) ==
    [numPicks |-> numPicks, avgPickPosition |-> Number(avgPickPosition),
     winrate |-> winrate]

NoStats == << >>

\* Two responses of /ability-hero-attributes.  Statistics below 10 picks,
\* abilities below 50 picks over the categories of a view, the hero body -1
\* and an ability the catalog does not list (4) are all present.
AttributeResponses ==
    {[str |-> (1 :> CategoryStats(60, 5, Rat(1, 2))) @@ (2 :> CategoryStats(80, 3, Rat(3, 5)))
                @@ (-1 :> CategoryStats(500, 1, Rat(1, 2))),
      agi |-> (1 :> CategoryStats(5, 6, Rat(1, 5))) @@ (2 :> CategoryStats(20, 7, Rat(2, 5)))
                @@ (3 :> CategoryStats(55, 9, Rat(9, 20))) @@ (4 :> CategoryStats(90, 2, Rat(1, 2))),
      int |-> NoStats,
      uni |-> NoStats,
      melee |-> (1 :> CategoryStats(100, 5, Rat(1, 2))) @@ (2 :> CategoryStats(45, 4, Rat(3, 5))),
      ranged |-> (2 :> CategoryStats(8, 4, Rat(1, 2))) @@ (3 :> CategoryStats(70, 8, Rat(2, 5)))],
     [str |-> (2 :> CategoryStats(70, 4, Rat(1, 2))),
      agi |-> (2 :> CategoryStats(70, 6, Rat(11, 20))),
      int |-> NoStats,
      uni |-> (3 :> CategoryStats(50, 9, Rat(2, 5))),
      melee |-> (1 :> CategoryStats(50, 5, Rat(1, 2))) @@ (3 :> CategoryStats(60, 7, Rat(9, 20))),
      ranged |-> (1 :> CategoryStats(50, 6, Rat(3, 5)))]}

ViewModes == {"attribute", "attackType"}
CategoriesOf == ("attribute" :> <<"str", "agi", "int", "uni">>) @@
                ("attackType" :> <<"melee", "ranged">>)
Metrics == {"wr", "pick", "pct"}

\* The texts typed in the search box: empty, blank, a text in lower case that
\* two names hold, and one in upper case that one name holds.
SearchQueries == {<< >>, <<" ">>, <<"a">>, <<"D">>}

\* The elements of a set of integers in ascending order.
RECURSIVE Ascending(_)
Ascending(S) ==
    IF S = {} THEN << >>
    ELSE LET least == CHOOSE x \in S : \A y \in S : x <= y
         IN  <<least>> \o Ascending(S \ {least})

\* Object.keys of a record keyed by ids: the non-negative integer keys in
\* ascending order, then the other keys.
ObjectKeys(obj) ==
    Ascending({id \in DOMAIN obj : id >= 0}) \o Ascending({id \in DOMAIN obj : id < 0})

\* ids.forEach(id => allAbilityIds.add(id)) on the insertion-ordered set.
RECURSIVE addAll(_, _)
addAll(ordered, ids) ==
    IF ids = << >> THEN ordered
    ELSE addAll(IF includes(ordered, Head(ids)) THEN ordered ELSE Append(ordered, Head(ids)),
                Tail(ids))

\* The ids collected over the first k categories.
RECURSIVE allAbilityIds(_, _, _)
allAbilityIds(stats, categories, k) ==
    IF k = 0 THEN << >>
    ELSE addAll(allAbilityIds(stats, categories, k - 1), ObjectKeys(stats[categories[k]]))

\* makeStats, before the pick percentage is known
makeStats(stats, cat, abilityId) ==
    IF abilityId \notin DOMAIN stats[cat] \/ stats[cat][abilityId].numPicks < 10
    THEN Null
    ELSE [winRate |-> Times(stats[cat][abilityId].winrate, Number(100)),
          avgPick |-> stats[cat][abilityId].avgPickPosition,
          picks |-> stats[cat][abilityId].numPicks,
          pickPct |-> Number(0)]

\* (a?.picks ?? 0) + ... over the first k categories
RECURSIVE sumPicks(_, _, _)
sumPicks(made, categories, k) ==
    IF k = 0 THEN 0
    ELSE sumPicks(made, categories, k - 1) +
         (IF made[categories[k]] = Null THEN 0 ELSE made[categories[k]].picks)

\* The row of one ability, or no row.
rowsOfAbility(stats, categories, abilityId) ==
    LET ability == getAbilityById(abilityId)
        made == [cat \in {categories[i] : i \in DOMAIN categories} |->
                    makeStats(stats, cat, abilityId)]
        totalPicks == sumPicks(made, categories, Len(categories))
    IN  IF abilityId <= 0 \/ ~Truthy(ability) \/ totalPicks < 50 THEN << >>
        ELSE << [abilityId |-> abilityId,
                 abilityName |-> ability.v.englishName,
                 shortName |-> ability.v.shortName,
                 isUltimate |-> Coalesce(ability.v.isUltimate, Bool(FALSE)),
                 totalPicks |-> totalPicks,
                 stats |-> [cat \in DOMAIN made |->
                              IF made[cat] = Null THEN Null
                              ELSE [made[cat] EXCEPT !.pickPct =
                                      Times(Divide(Number(made[cat].picks), Number(totalPicks)),
                                            Number(100))]]] >>

RECURSIVE rowsOfIds(_, _, _)
rowsOfIds(stats, categories, ids) ==
    IF ids = << >> THEN << >>
    ELSE rowsOfAbility(stats, categories, Head(ids)) \o rowsOfIds(stats, categories, Tail(ids))

\* attributeData and attackTypeData: the rows of the view `forView`, built
\* when that view is the selected one.
categoryRows(response, view, forView) ==
    IF IsNullish(response) \/ view # forView THEN << >>
    ELSE rowsOfIds(response.v, CategoriesOf[forView],
                   allAbilityIds(response.v, CategoriesOf[forView], Len(CategoriesOf[forView])))

\* filteredAttributeData and filteredAttackTypeData
filterRows(data, text) ==
    IF trim(text) = << >> THEN data
    ELSE SelectSeq(data, LAMBDA row :
            \/ includesText(toLowerCase(row.abilityName.v), toLowerCase(text))
            \/ includesText(toLowerCase(row.shortName.v), toLowerCase(text)))

\* sortField.split('_')
split(field) ==
    CHOOSE parts \in {"str", "agi", "int", "uni", "melee", "ranged"} \X Metrics :
        parts[1] \o "_" \o parts[2] = field

\* The headers of the table of a view.
Headers(view) ==
    {"abilityName", "totalPicks"} \cup
    {CategoriesOf[view][i] \o "_" \o metric : i \in DOMAIN CategoriesOf[view], metric \in Metrics}

\* aVal and bVal of the comparator: the value of a row in the sorted column, or null.
sortValue(row, field) ==
    IF field = "abilityName" THEN row.abilityName
    ELSE IF field = "totalPicks" THEN Number(row.totalPicks)
    ELSE LET cat == split(field)[1]
             metric == split(field)[2]
         IN  IF cat \notin DOMAIN row.stats \/ row.stats[cat] = Null THEN Null
             ELSE IF metric = "wr" THEN row.stats[cat].winRate
             ELSE IF metric = "pick" THEN row.stats[cat].avgPick
             ELSE row.stats[cat].pickPct

\* The sign of aVal - bVal, or of aVal.localeCompare(bVal) for names.
resultOf(aVal, bVal, field) ==
    IF field = "abilityName" THEN localeCompare(aVal.v, bVal.v)
    ELSE IF Greater(aVal, bVal) THEN 1
    ELSE IF Greater(bVal, aVal) THEN -1
    ELSE 0

\* The comparator with the test for missing values after the direction.
compareRows_nullsFollowDirection(a, b, field, dir) ==
    LET aVal == sortValue(a, field)
        bVal == sortValue(b, field)
        result == IF aVal = Null /\ bVal = Null THEN 0
                  ELSE IF aVal = Null THEN 1
                  ELSE IF bVal = Null THEN -1
                  ELSE resultOf(aVal, bVal, field)
    IN  IF dir = "desc" THEN -result ELSE result

\* The comparator of data.sort, by its sign.
compareRows(a, b, field, dir) ==
    LET aVal == sortValue(a, field)
        bVal == sortValue(b, field)
    IN  IF aVal = Null /\ bVal = Null THEN 0
        ELSE IF aVal = Null THEN 1
        ELSE IF bVal = Null THEN -1
        ELSE IF dir = "desc" THEN -resultOf(aVal, bVal, field)
        ELSE resultOf(aVal, bVal, field)

\* A row inserted into sorted rows after the rows that do not compare above
\* it (Array.prototype.sort is stable).
RECURSIVE insertRow(_, _, _, _)
insertRow(sorted, row, field, dir) ==
    IF sorted = << >> THEN <<row>>
    ELSE IF compareRows(Head(sorted), row, field, dir) <= 0
         THEN <<Head(sorted)>> \o insertRow(Tail(sorted), row, field, dir)
         ELSE <<row>> \o sorted

\* [...data].sort(comparator)
RECURSIVE sortRows(_, _, _)
sortRows(data, field, dir) ==
    IF data = << >> THEN << >>
    ELSE insertRow(sortRows(SubSeq(data, 1, Len(data) - 1), field, dir),
                   data[Len(data)], field, dir)

\* useMemo: the cached value unless a dependency changed.
useMemo(changed, computed, cached) == IF changed THEN computed ELSE cached

\* Whether a dependency of sortedAttributeData changed:
\* [attributeData, sortField, sortDir].
sortedAttributeDataChanged(dataChanged, filteredChanged, fieldChanged, dirChanged) ==
    dataChanged \/ fieldChanged \/ dirChanged

\* Whether a dependency of sortedAttackTypeData changed:
\* [filteredAttackTypeData, sortField, sortDir].
sortedAttackTypeDataChanged(dataChanged, filteredChanged, fieldChanged, dirChanged) ==
    filteredChanged \/ fieldChanged \/ dirChanged

\* A render of the page after the handler `event`, with the given query data
\* (a new object when fetched is true), view, sort state and search text.
TableRendered(event, response, fetched, view, field, dir, text) ==
    LET dataChanged == fetched \/ view # viewMode
        attribute == useMemo(dataChanged, categoryRows(response, view, "attribute"),
                             attributeData)
        attackType == useMemo(dataChanged, categoryRows(response, view, "attackType"),
                              attackTypeData)
        textChanged == text # searchQuery
        filteredAttribute == useMemo(dataChanged \/ textChanged,
                                     filterRows(attribute, text), filteredAttributeData)
        filteredAttackType == useMemo(dataChanged \/ textChanged,
                                      filterRows(attackType, text), filteredAttackTypeData)
        \* a blank text returns the unfiltered array itself, not a new one
        filteredChanged == \/ dataChanged
                           \/ textChanged /\ ~(trim(text) = << >> /\ trim(searchQuery) = << >>)
    IN  /\ tableEvent' = event
        /\ attributesResponse' = response
        /\ viewMode' = view
        /\ sortField' = field
        /\ sortDir' = dir
        /\ searchQuery' = text
        /\ attributeData' = attribute
        /\ attackTypeData' = attackType
        /\ filteredAttributeData' = filteredAttribute
        /\ filteredAttackTypeData' = filteredAttackType
        /\ sortedAttributeData' =
              useMemo(sortedAttributeDataChanged(dataChanged, filteredChanged,
                                                 field # sortField, dir # sortDir),
                      sortRows(filteredAttribute, field, dir), sortedAttributeData)
        /\ sortedAttackTypeData' =
              useMemo(sortedAttackTypeDataChanged(dataChanged, filteredChanged,
                                                  field # sortField, dir # sortDir),
                      sortRows(filteredAttackType, field, dir), sortedAttackTypeData)

TableEvent(fn, arg) == [fn |-> fn, arg |-> arg]

outsideTableVars == <<earlierVars, patchVars, sectionVars, searchVars>>

\* The page is mounted at a URL with some view; no data has arrived.
InitTable ==
    /\ heroes = << >>
    /\ abilities = TableAbilityCatalog
    /\ call = NoCall
    /\ synergyCall = NoCall
    /\ PageUnmounted
    /\ DistributionUnmounted
    /\ AbilityDetailUnmounted
    /\ QueryUnobserved
    /\ PatchSelectionUnmounted
    /\ SectionsUnmounted
    /\ SearchUnmounted
    /\ tableEvent = TableEvent("mount", "")
    /\ attributesResponse = Undefined
    /\ viewMode \in ViewModes
    /\ sortField = "totalPicks"
    /\ sortDir = "desc"
    /\ searchQuery = << >>
    /\ attributeData = << >>
    /\ attackTypeData = << >>
    /\ filteredAttributeData = << >>
    /\ filteredAttackTypeData = << >>
    /\ sortedAttributeData = << >>
    /\ sortedAttackTypeData = << >>

\* The /ability-hero-attributes query settles with data.
ReceiveAttributes ==
    \E response \in AttributeResponses :
        /\ TableRendered(TableEvent("data", ""), Obj(response), TRUE, viewMode, sortField,
                         sortDir, searchQuery)
        /\ UNCHANGED outsideTableVars

handleViewChange ==
    \E mode \in ViewModes :
        /\ TableRendered(TableEvent("handleViewChange", mode), attributesResponse, FALSE,
                         mode, "totalPicks", "desc", searchQuery)
        /\ UNCHANGED outsideTableVars

handleSort ==
    \E field \in Headers(viewMode) :
        /\ TableRendered(TableEvent("handleSort", field), attributesResponse, FALSE, viewMode,
                         IF sortField = field THEN sortField ELSE field,
                         IF sortField = field
                         THEN (IF sortDir = "asc" THEN "desc" ELSE "asc")
                         ELSE (IF field = "abilityName" THEN "asc" ELSE "desc"),
                         searchQuery)
        /\ UNCHANGED outsideTableVars

setSearchQuery ==
    \E text \in SearchQueries :
        /\ TableRendered(TableEvent("setSearchQuery", ""), attributesResponse, FALSE, viewMode,
                         sortField, sortDir, text)
        /\ UNCHANGED outsideTableVars

NextTable ==
    \/ ReceiveAttributes
    \/ handleViewChange
    \/ handleSort
    \/ setSearchQuery

SpecTable == InitTable /\ [][NextTable]_vars

\* The rows of the table on screen.
DisplayedRows ==
    IF viewMode = "attribute" THEN sortedAttributeData ELSE sortedAttackTypeData

\* The rows of the selected view for the data, search text and sort state
\* of the moment.
CurrentRows ==
    sortRows(filterRows(categoryRows(attributesResponse, viewMode, viewMode), searchQuery),
             sortField, sortDir)

\* C24: the rows on screen are the rows of the current data that match the
\* current search text, in the current sort order: no memo returns a result
\* computed from an earlier value of an input.
C24_DisplayedRowsAreCurrent == DisplayedRows = CurrentRows

\* The rows of the attack type table are those of the current inputs.
C24_AttackTypeRowsAreCurrent == viewMode = "attackType" => DisplayedRows = CurrentRows

\* The row has a value in the column of the field.
HasValue(row, field) ==
    \/ field \in {"abilityName", "totalPicks"}
    \/ \E cat \in DOMAIN row.stats, metric \in Metrics :
          field = cat \o "_" \o metric /\ row.stats[cat] # Null

NoValueLast(rows, field) ==
    \A i, j \in DOMAIN rows : (i < j /\ ~HasValue(rows[i], field)) => ~HasValue(rows[j], field)

Flip(dir) == IF dir = "asc" THEN "desc" ELSE "asc"

\* C30: a click on the header of the current sort field flips the direction
\* and keeps the field; a click on another header selects that field,
\* descending, or ascending for the ability name; a change of view resets
\* the sort state to (totalPicks, desc); and in both directions the rows
\* without a value in the sorted column come after all rows with one.
C30_SortState ==
    [][/\ tableEvent'.fn = "handleSort" =>
            IF sortField = tableEvent'.arg
            THEN sortField' = sortField /\ sortDir' = Flip(sortDir)
            ELSE /\ sortField' = tableEvent'.arg
                 /\ sortDir' = (IF tableEvent'.arg = "abilityName" THEN "asc" ELSE "desc")
       /\ tableEvent'.fn = "handleViewChange" =>
            viewMode' = tableEvent'.arg /\ sortField' = "totalPicks" /\ sortDir' = "desc"
       /\ sortDir' \in {"asc", "desc"}
       /\ NoValueLast(DisplayedRows', sortField')]_vars

\* C30 witness: after a second click on the same header the table is sorted
\* ascending by a category column, the rows with a value first, in
\* ascending order, and a row without one last.
C30_Witness ==
    /\ tableEvent.fn = "handleSort"
    /\ sortField = tableEvent.arg
    /\ sortField = "str_wr"
    /\ sortDir = "asc"
    /\ Len(DisplayedRows) = 3
    /\ HasValue(DisplayedRows[1], sortField)
    /\ HasValue(DisplayedRows[2], sortField)
    /\ Greater(DisplayedRows[2].stats["str"].winRate, DisplayedRows[1].stats["str"].winRate)
    /\ ~HasValue(DisplayedRows[3], sortField)

---------------------------------------------------------------------------
(* The sections HeroDetailPage and AbilityPairsPage render for the states of
   their queries. *)

\* The heroes of the route: 1 is in the catalog and has facets, 2 is in the
\* catalog and has none, 3 is not in the catalog.
RouteHeroIds == {1, 2, 3}
SectionHeroTable == [id \in {1, 2} |-> HeroRecord(id)]
FacetHeroIds == {1}

\* The queries of each page.
QueriesOf ==
    ("HeroDetailPage" :> {"/heroes/:heroId", "/abilities", "/facets"}) @@
    ("AbilityPairsPage" :> {"/ability-pairs", "/abilities", "/ability-triplets",
                             "/heroes/historic"})

\* The status of a query: pending with no data, settled with data, or
\* settled with an error after the retries.
QueryStatuses == {"loading", "success", "error"}

\* isLoading and error of a query
isLoadingOf(status) == status = "loading"
errorOf(status) == status = "error"

\* What a table or selector is given: whether it has rows, and its loading flag.
Section(hasRows, loading) == [rows |-> hasRows, loading |-> loading]

NoSections == [name \in {} |-> Section(FALSE, FALSE)]

\* What HeroDetailPage returns.
HeroDetailPage(id, status) ==
    LET hero == getHeroById(id)
        facetsRows == status["/facets"] = "success" /\ id \in FacetHeroIds
        statsRows == status["/heroes/:heroId"] = "success"
        isLoading == \E q \in DOMAIN status : isLoadingOf(status[q])
    IN  IF errorOf(status["/heroes/:heroId"])
        THEN [message |-> Str("Error loading hero data. Please try again later."),
              sections |-> NoSections]
        ELSE IF ~Truthy(hero)
        THEN [message |-> Str("Hero not found."), sections |-> NoSections]
        ELSE [message |-> Null,
              sections |->
                 [name \in {"Abilities Picked"} \cup (IF facetsRows THEN {"Facets"} ELSE {}) |->
                     IF name = "Facets"
                     THEN Section(facetsRows, isLoadingOf(status["/facets"]))
                     ELSE Section(statsRows, isLoading)]]

\* What AbilityPairsPage returns.
AbilityPairsPage(status) ==
    LET statsRows == status["/ability-pairs"] = "success"
        isLoading == \E q \in {"/ability-pairs", "/abilities", "/ability-triplets"} :
                        isLoadingOf(status[q])
    IN  IF errorOf(status["/ability-pairs"])
        THEN [message |-> Str("Error loading ability pairs data. Please try again later."),
              sections |-> NoSections]
        ELSE [message |-> Null,
              sections |->
                 [name \in {"PatchSelector", "Ability Pairs"} |->
                     IF name = "PatchSelector"
                     THEN Section(status["/heroes/historic"] = "success", FALSE)
                     ELSE Section(statsRows, isLoading)]]

\* The router's choice of page.
PageOf(r, id, status) ==
    IF r = "HeroDetailPage" THEN HeroDetailPage(id, status) ELSE AbilityPairsPage(status)

outsideSectionVars == <<earlierVars, patchVars, tableVars, searchVars>>

\* A page is opened; all its queries are pending.
InitSections ==
    /\ heroes = SectionHeroTable
    /\ abilities = << >>
    /\ call = NoCall
    /\ synergyCall = NoCall
    /\ PageUnmounted
    /\ DistributionUnmounted
    /\ AbilityDetailUnmounted
    /\ QueryUnobserved
    /\ PatchSelectionUnmounted
    /\ TableUnmounted
    /\ SearchUnmounted
    /\ route \in DOMAIN QueriesOf
    /\ heroId \in (IF route = "HeroDetailPage" THEN RouteHeroIds ELSE {0})
    /\ queryStatus = [q \in QueriesOf[route] |-> "loading"]
    /\ screen = PageOf(route, heroId, queryStatus)

\* A pending query settles, with data or with an error.
QuerySettles ==
    \E q \in DOMAIN queryStatus, outcome \in {"success", "error"} :
        /\ queryStatus[q] = "loading"
        /\ queryStatus' = [queryStatus EXCEPT ![q] = outcome]
        /\ screen' = PageOf(route, heroId, queryStatus')
        /\ UNCHANGED <<route, heroId, outsideSectionVars>>

\* A settled query is fetched again (window focus, stale data) and settles
\* the other way.
QueryRefetched ==
    \E q \in DOMAIN queryStatus :
        /\ queryStatus[q] # "loading"
        /\ queryStatus' = [queryStatus EXCEPT
                              ![q] = IF @ = "success" THEN "error" ELSE "success"]
        /\ screen' = PageOf(route, heroId, queryStatus')
        /\ UNCHANGED <<route, heroId, outsideSectionVars>>

NextSections ==
    \/ QuerySettles
    \/ QueryRefetched

SpecSections == InitSections /\ [][NextSections]_vars

\* The section of the page that shows the data of a query, and whether the
\* data of the query has rows for it.
SectionOf ==
    ("HeroDetailPage" :> (("/heroes/:heroId" :> "Abilities Picked") @@ ("/facets" :> "Facets")))
    @@ ("AbilityPairsPage" :> (("/ability-pairs" :> "Ability Pairs")
                               @@ ("/heroes/historic" :> "PatchSelector")))

HasRowsFor(q) == q = "/facets" => heroId \in FacetHeroIds

HeroKnown == route = "HeroDetailPage" => heroId \in DOMAIN heroes

\* C25: a failed or pending query affects only the section that displays
\* it: the section of every query that has succeeded is rendered with its
\* data, whatever the state of the other queries of the page.
C25_FailureIsLocal ==
    HeroKnown =>
        \A q \in DOMAIN SectionOf[route] :
            (queryStatus[q] = "success" /\ HasRowsFor(q)) =>
                /\ SectionOf[route][q] \in DOMAIN screen.sections
                /\ screen.sections[SectionOf[route][q]].rows

---------------------------------------------------------------------------
(* DistributionPage: the debounced player search. *)

\* The delay of useDebounce, in ms, and the step of the clock of the model.
DebounceDelay == 500
TickMs == 250
\* searchPlayers accepts at most this many ids.
MaxSteamIds == 5

\* The texts of the search box: empty, one id, two ids with a blank, an id
\* followed by a letter, a letter, and six ids.
SearchTexts ==
    {<< >>, <<"1">>, <<"2", ",", " ", "1">>, <<"1", "x">>, <<"x">>,
     <<"1", ",", "1", ",", "1", ",", "1", ",", "1", ",", "1">>}

\* s.split(sep): the pieces between the separators; `piece` is the one being read.
RECURSIVE splitOn(_, _, _)
splitOn(chars, sep, piece) ==
    IF chars = << >> THEN <<piece>>
    ELSE IF Head(chars) = sep THEN <<piece>> \o splitOn(Tail(chars), sep, << >>)
    ELSE splitOn(Tail(chars), sep, Append(piece, Head(chars)))

\* A message of the page: a text and the value inserted in it.
Message(text, arg) == [text |-> text, arg |-> arg]

\* The loop over ids: the valid ids so far, or the error of the first entry
\* that parseInt cannot read.
RECURSIVE parseIds(_, _)
parseIds(ids, validIds) ==
    IF ids = << >> THEN [error |-> Null, validIds |-> validIds]
    ELSE LET id == parseInt(Head(ids))
         IN  IF id = NotANumber
             THEN [error |-> Message("Invalid Steam ID format: ", Str(Head(ids))),
                   validIds |-> << >>]
             ELSE parseIds(Tail(ids), Append(validIds, id.v))

\* The synchronous part of searchPlayers: the message it sets and the ids it
\* goes on to look up.
validate(steamIds) ==
    IF trim(steamIds) = << >> THEN [error |-> Null, validIds |-> << >>]
    ELSE LET pieces == splitOn(steamIds, ",", << >>)
             ids == SelectSeq([i \in DOMAIN pieces |-> trim(pieces[i])],
                              LAMBDA piece : piece # << >>)
             parsed == parseIds(ids, << >>)
         IN  IF parsed.error # Null THEN parsed
             ELSE IF Len(parsed.validIds) = 0 THEN parsed
             ELSE IF Len(parsed.validIds) > MaxSteamIds
             THEN [error |-> Message("Maximum 5 Steam IDs allowed", Null), validIds |-> << >>]
             ELSE parsed

\* The player of a /players/:id response.
Player(id) == [steamId |-> id, rating |-> 1000 * id]

\* results.sort((a, b) => b.rating - a.rating), by insertion (the sort is stable).
RECURSIVE InsertByRatingDesc(_, _)
InsertByRatingDesc(sorted, e) ==
    IF sorted = << >> THEN <<e>>
    ELSE IF Head(sorted).rating >= e.rating
         THEN <<Head(sorted)>> \o InsertByRatingDesc(Tail(sorted), e)
         ELSE <<e>> \o sorted

RECURSIVE SortByRatingDesc(_)
SortByRatingDesc(seq) ==
    IF seq = << >> THEN << >>
    ELSE InsertByRatingDesc(SortByRatingDesc(SubSeq(seq, 1, Len(seq) - 1)), seq[Len(seq)])

\* A call of searchPlayers: its argument, what the synchronous part set, the
\* state of each look-up, and the results and errors pushed so far.
Search(steamIds) ==
    [text |-> steamIds,
     rejected |-> validate(steamIds).error,
     lookups |-> [i \in DOMAIN validate(steamIds).validIds |->
                     [id |-> validate(steamIds).validIds[i], state |-> "pending"]],
     results |-> << >>,
     errors |-> << >>]

\* The timeout of useDebounce is due.
timerDue_atOnce(elapsed, delay) == elapsed # Null

timerDue(elapsed, delay) == elapsed # Null /\ elapsed.v >= delay

\* Promise.all resolved as soon as one look-up has settled.
promiseAllSettled_any(lookups) == \E i \in DOMAIN lookups : lookups[i].state # "pending"

\* Promise.all has resolved: every look-up has settled.
promiseAllSettled(lookups) == \A i \in DOMAIN lookups : lookups[i].state # "pending"

outsideSearchVars == <<earlierVars, patchVars, tableVars, sectionVars>>

\* The page is mounted: the box is empty, useDebounce has armed its first
\* timeout, and the auto-search effect has cleared the display.
InitDebounce ==
    /\ EarlierUnmounted
    /\ PatchSelectionUnmounted
    /\ TableUnmounted
    /\ SectionsUnmounted
    /\ searchSteamIds = << >>
    /\ debouncedSteamIds = << >>
    /\ timer = Num(0)
    /\ searches = << >>
    /\ searchResults = << >>
    /\ searchError = Null

\* The page has been mounted for the delay: the first timeout has fired and
\* left the empty text in place.
InitSearch ==
    /\ EarlierUnmounted
    /\ PatchSelectionUnmounted
    /\ TableUnmounted
    /\ SectionsUnmounted
    /\ searchSteamIds = << >>
    /\ debouncedSteamIds = << >>
    /\ timer = Null
    /\ searches = << >>
    /\ searchResults = << >>
    /\ searchError = Null

\* The user edits the box: the effect of useDebounce clears the timeout and
\* arms a new one.
setSearchSteamIds ==
    \E text \in SearchTexts :
        /\ text # searchSteamIds
        /\ searchSteamIds' = text
        /\ timer' = Num(0)
        /\ UNCHANGED <<debouncedSteamIds, searches, searchResults, searchError,
                       outsideSearchVars>>

\* Time passes while a timeout is armed and not yet due.
Tick ==
    /\ timer # Null
    /\ timer.v < DebounceDelay
    /\ timer' = Num(timer.v + TickMs)
    /\ UNCHANGED <<searchSteamIds, debouncedSteamIds, searches, searchResults, searchError,
                   outsideSearchVars>>

\* The auto-search effect for a new debounced text: searchPlayers for a
\* non-empty text, up to its await, and a cleared display for the empty one.
AutoSearchEffect(text) ==
    IF text # << >>
    THEN /\ Len(searches) < MaxSearches
         /\ searches' = Append(searches, Search(text))
         /\ searchResults' = << >>
         /\ searchError' = validate(text).error
    ELSE /\ searches' = searches
         /\ searchResults' = << >>
         /\ searchError' = Null

\* The timeout fires: setDebouncedValue(value).  When the debounced value
\* changes the auto-search effect runs.
TimeoutFires ==
    /\ timerDue(timer, DebounceDelay)
    /\ timer' = Null
    /\ debouncedSteamIds' = searchSteamIds
    /\ IF searchSteamIds = debouncedSteamIds
       THEN UNCHANGED <<searches, searchResults, searchError>>
       ELSE AutoSearchEffect(searchSteamIds)
    /\ UNCHANGED <<searchSteamIds, outsideSearchVars>>

\* The box was edited and the text then stayed unchanged for the delay:
\* useDebounce hands the new text on and the auto-search effect runs.
DebouncedInputChanges ==
    \E text \in SearchTexts :
        /\ text # debouncedSteamIds
        /\ searchSteamIds' = text
        /\ debouncedSteamIds' = text
        /\ timer' = Null
        /\ AutoSearchEffect(text)
        /\ UNCHANGED outsideSearchVars

\* The response of one look-up arrives, or its fetch fails: the result or
\* the error is pushed, and when Promise.all resolves the display is set.
LookupSettles ==
    \E s \in DOMAIN searches, outcome \in {"found", "notFound", "failed"} :
      \E i \in DOMAIN searches[s].lookups :
        LET id == searches[s].lookups[i].id
            results == IF outcome = "found"
                       THEN Append(searches[s].results, Player(id))
                       ELSE searches[s].results
            errors == IF outcome = "notFound"
                      THEN Append(searches[s].errors, Message("Player not found", Num(id)))
                      ELSE IF outcome = "failed"
                      THEN Append(searches[s].errors, Message("Error fetching player", Num(id)))
                      ELSE searches[s].errors
            lookups == [searches[s].lookups EXCEPT ![i].state = outcome]
        IN  /\ searches[s].lookups[i].state = "pending"
            /\ searches' = [searches EXCEPT ![s].lookups = lookups,
                                            ![s].results = results,
                                            ![s].errors = errors]
            /\ searchResults' = IF promiseAllSettled(lookups) /\ Len(results) > 0
                                THEN SortByRatingDesc(results)
                                ELSE searchResults
            /\ searchError' = IF promiseAllSettled(lookups) /\ Len(errors) > 0 /\ Len(results) = 0
                              THEN errors
                              ELSE searchError
            /\ UNCHANGED <<searchSteamIds, debouncedSteamIds, timer, outsideSearchVars>>

\* The typing and the debounce, with the responses of the look-ups left out.
NextDebounce ==
    \/ setSearchSteamIds
    \/ Tick
    \/ TimeoutFires

SpecDebounce == InitDebounce /\ [][NextDebounce]_vars

\* The searches and their responses, with the typing between two debounced
\* texts left out.
NextSearch ==
    \/ DebouncedInputChanges
    \/ LookupSettles

SpecSearch == InitSearch /\ [][NextSearch]_vars

\* The players found by the look-ups of a search, and the look-ups still pending.
FoundIn(search) ==
    {search.lookups[i].id : i \in {j \in DOMAIN search.lookups : search.lookups[j].state = "found"}}
PendingIn(search) == {i \in DOMAIN search.lookups : search.lookups[i].state = "pending"}

\* The rows are the given players, each once, by descending rating.
ShowsPlayers(rows, ids) ==
    /\ {rows[i].steamId : i \in DOMAIN rows} = ids
    /\ Len(rows) = Cardinality(ids)
    /\ \A i, j \in DOMAIN rows : i < j => rows[i].rating >= rows[j].rating

\* C21: the look-ups of a search are issued together; the displayed results
\* change only to empty or, once every look-up of a search has settled, to
\* the players that search found, never to a partial set; and when the last
\* look-up of a search settles and some look-up succeeded, the players found
\* are displayed whatever the failures and not-founds among the others.
C21_ResultsAfterAllSettled ==
    [][/\ Len(searches') > Len(searches) =>
             PendingIn(searches'[Len(searches')]) = DOMAIN searches'[Len(searches')].lookups
       /\ searchResults' # searchResults =>
             \/ searchResults' = << >>
             \/ \E s \in DOMAIN searches :
                   /\ PendingIn(searches[s]) # {}
                   /\ PendingIn(searches'[s]) = {}
                   /\ ShowsPlayers(searchResults', FoundIn(searches'[s]))
       /\ \A s \in DOMAIN searches :
             (PendingIn(searches[s]) # {} /\ PendingIn(searches'[s]) = {}
                 /\ FoundIn(searches'[s]) # {})
             => ShowsPlayers(searchResults', FoundIn(searches'[s]))]_vars

\* C21 witness: a search of two ids has settled, one look-up found its
\* player and the other did not, and the player found is displayed.
C21_Witness ==
    \E s \in DOMAIN searches :
        /\ Len(searches[s].lookups) = 2
        /\ PendingIn(searches[s]) = {}
        /\ Cardinality(FoundIn(searches[s])) = 1
        /\ Len(searches[s].errors) = 1
        /\ ShowsPlayers(searchResults, FoundIn(searches[s]))
        /\ searchError = Null

\* The entries of a text: its comma-separated pieces, trimmed, the empty ones dropped.
Entries(text) ==
    LET pieces == splitOn(text, ",", << >>)
    IN  SelectSeq([i \in DOMAIN pieces |-> trim(pieces[i])], LAMBDA piece : piece # << >>)

\* A well-formed id is a non-empty run of digits.
WellFormed(entry) ==
    entry # << >> /\ \A i \in DOMAIN entry : entry[i] \in DOMAIN DigitValue

Malformed(text) == \E i \in DOMAIN Entries(text) : ~WellFormed(Entries(text)[i])

\* C22: a search whose text holds an entry that is not a well-formed id, or
\* more than 5 ids, is rejected with a message and issues no request; a
\* search of an empty text issues no request either.
C22_MalformedInputRejected ==
    \A s \in DOMAIN searches :
        /\ (Malformed(searches[s].text) \/ Len(Entries(searches[s].text)) > 5) =>
              /\ searches[s].lookups = << >>
              /\ searches[s].rejected # Null
        /\ Entries(searches[s].text) = << >> => searches[s].lookups = << >>

\* C23: a search is started for a text only when the text has stayed
\* unchanged for the debounce delay; an edit restarts the delay and starts
\* no search, so no search is started for an intermediate text; and the step
\* that starts a search disarms the timeout, so at most one search is
\* started once typing stops.
C23_Debounced ==
    [][/\ Len(searches') > Len(searches) =>
             /\ timer # Null
             /\ timer.v >= DebounceDelay
             /\ Len(searches') = Len(searches) + 1
             /\ searches'[Len(searches')].text = searchSteamIds
             /\ searchSteamIds' = searchSteamIds
             /\ timer' = Null
       /\ searchSteamIds' # searchSteamIds =>
             /\ timer' = Num(0)
             /\ Len(searches') = Len(searches)
       /\ (timer # Null /\ timer' # Null /\ timer'.v > timer.v) =>
             searchSteamIds' = searchSteamIds]_vars

\* C23 witness: a search was started for the text that stayed unchanged for
\* the delay; the box has been edited since, less than the delay ago, and no
\* search has been started for the new text.
C23_Witness ==
    /\ Len(searches) = 1
    /\ searches[1].text = debouncedSteamIds
    /\ searchSteamIds # debouncedSteamIds
    /\ searchSteamIds # << >>
    /\ timer # Null
    /\ timer.v > 0
    /\ timer.v < DebounceDelay

\* What a search displays once it has settled: its players, and its message
\* when it has no player.
Settled(search) == PendingIn(search) = {}
MessageOf(search) ==
    IF search.rejected # Null THEN search.rejected
    ELSE IF search.errors # << >> /\ search.results = << >> THEN search.errors
    ELSE Null

\* C26: once every request has settled and the debounce is at rest, the
\* results and the message displayed are those of the search started last,
\* and nothing is displayed when the input was cleared.
C26_LatestSearchDisplayed ==
    (/\ timer = Null
     /\ searchSteamIds = debouncedSteamIds
     /\ \A s \in DOMAIN searches : Settled(searches[s]))
    => IF debouncedSteamIds = << >>
       THEN searchResults = << >> /\ searchError = Null
       ELSE /\ searches # << >>
            /\ searches[Len(searches)].text = debouncedSteamIds
            /\ ShowsPlayers(searchResults, FoundIn(searches[Len(searches)]))
            /\ searchError = MessageOf(searches[Len(searches)])

====
